---------------------------- MODULE Spec2Model ----------------------------
(***************************************************************************)
(* A model of the data-acquisition pipeline of btc_backtest:               *)
(*   core/binance/cache_manager.py   load_checksums, CacheManager          *)
(*   core/binance/fetcher.py         BinanceFetcher (tenacity retry)       *)
(*   core/binance/parser.py          parse_kline_zip                       *)
(*   core/binance/binance_client.py  PairsFetcher                          *)
(*   core/data_loader.py             BinanceDataLoader                     *)
(*                                                                         *)
(* Text (str) is a sequence of one-character strings, so that formatting,  *)
(* splitting and suffix tests are computed character by character.         *)
(***************************************************************************)
EXTENDS Integers, Sequences, FiniteSets, TLC

VARIABLES
    files,        \* cache directory: filename -> bytes, for the files that exist
    checksums,    \* CacheManager._checksums: insertion-ordered dict filename -> md5
    ledgerFile,   \* the checksums file: NoFile, or its sequence of lines
    last,         \* the last call made on the cache API and what it returned
    saved,        \* history: the <<key, content>> of every completed save_file; a
                  \* save_file the process was killed in is <<key, content, point>>
    nOps,         \* number of API calls made so far (bounded by MaxOps)
    ticker,       \* PairsFetcher: the snapshot the endpoint serves, the request, the result
    cfg,          \* BinanceDataLoader: symbols, interval and the requested range
    task,         \* month task id -> its position, attempt number and result
    period,       \* symbol index -> state of its load_data_for_period call
    doneOrder,    \* history: month task ids in the order they finished
    allRun,       \* the load_all_symbols call: its position and the mapping it returns
    fetch,        \* one fetch_kline_zip call: attempt number, responses so far, outcome
    parsed        \* one parse_kline_zip call: its argument and what it returned or raised

vars == <<files, checksums, ledgerFile, last, saved, nOps, ticker, cfg, task,
          period, doneOrder, allRun, fetch, parsed>>

cacheVars == <<files, checksums, ledgerFile>>
apiVars == <<last, saved, nOps>>
loaderVars == <<cfg, task, period, doneOrder, allRun>>

(***************************************************************************)
(* Text helpers                                                            *)
(***************************************************************************)
\* str.isspace for the characters of the model
IsSpace(c) == c \in {" ", "\t"}

\* decimal digits of a natural number, as f"{n}" prints it
RECURSIVE DecStr(_)
DecStr(n) ==
    LET d == <<"0", "1", "2", "3", "4", "5", "6", "7", "8", "9">>[(n % 10) + 1]
    IN  IF n < 10 THEN <<d>> ELSE DecStr(n \div 10) \o <<d>>

\* f"{n:02d}"
Pad2(n) == IF n < 10 THEN <<"0">> \o DecStr(n) ELSE DecStr(n)

\* str.strip(): drop leading and trailing whitespace
RECURSIVE LStrip(_)
LStrip(s) == IF s # <<>> /\ IsSpace(Head(s)) THEN LStrip(Tail(s)) ELSE s

RECURSIVE RStrip(_)
RStrip(s) ==
    IF s # <<>> /\ IsSpace(s[Len(s)]) THEN RStrip(SubSeq(s, 1, Len(s) - 1)) ELSE s

Strip(s) == RStrip(LStrip(s))

\* length of the longest whitespace-free prefix of s
RECURSIVE TokenLen(_)
TokenLen(s) == IF s = <<>> \/ IsSpace(Head(s)) THEN 0 ELSE 1 + TokenLen(Tail(s))

\* str.split() with no separator: the maximal whitespace-free runs, in order
RECURSIVE Split(_)
Split(s) ==
    LET t == LStrip(s)
        n == TokenLen(t)
    IN  IF t = <<>> THEN <<>>
        ELSE <<SubSeq(t, 1, n)>> \o Split(SubSeq(t, n + 1, Len(t)))

\* str.endswith
EndsWith(s, suffix) ==
    /\ Len(suffix) <= Len(s)
    /\ SubSeq(s, Len(s) - Len(suffix) + 1, Len(s)) = suffix

\* `needle in s` for str
Contains(s, needle) ==
    \E i \in 0..(Len(s) - Len(needle)) : SubSeq(s, i + 1, i + Len(needle)) = needle

HasSpace(s) == \E i \in 1..Len(s) : IsSpace(s[i])

(***************************************************************************)
(* Byte strings.  A byte string of the model is one of a pool of values:   *)
(* raw bytes (not a ZIP container) or a ZIP container with its entries in  *)
(* archive order, each entry a name and a CSV table given as its rows of   *)
(* fields.                                                                 *)
(***************************************************************************)
Raw(text) == [kind |-> "raw", data |-> text, names |-> <<>>, entries |-> <<>>]

\* a ZIP container: names[i] is the file name of the i-th entry, entries[i] its table
ZipNamed(names, entries) == [kind |-> "zip", data |-> "", names |-> names, entries |-> entries]

\* the file name Zip gives its i-th entry
EntryName(i) == <<"a.csv", "b.csv", "c.csv">>[i]

\* a ZIP container whose entries have names of their own
Zip(entries) == ZipNamed([i \in 1..Len(entries) |-> EntryName(i)], entries)

\* `None`, where a byte string is expected
NoBytes == [kind |-> "none", data |-> "", names |-> <<>>, entries |-> <<>>]
\* `None`, where a str is expected
NoneStr == <<"<None>">>

EmptyBytes == Raw("")
NotFoundMarker == Raw("404_NOT_FOUND")
Garbage == Raw("not a zip")

\* one CSV line of a kline file: 12 fields, open_time first, close_time seventh
KlineRow(openMs, price) ==
    <<openMs, price, price, price, price, 1, openMs + 1, price, 1, 1, 1, 0>>

\* one month of klines, its rows not in open_time order
ZipJan == Zip(<< <<KlineRow(2, 11), KlineRow(1, 10)>> >>)
\* a later month, rows in order
ZipFeb == Zip(<< <<KlineRow(3, 12), KlineRow(4, 13)>> >>)
\* rows out of order, one open_time twice, and overlapping ZipJan and ZipFeb
ZipMessy == Zip(<< <<KlineRow(3, 20), KlineRow(2, 21), KlineRow(3, 22)>> >>)

\* the first bytes of every ZIP container (the local file header signature)
ZipHead == Raw("PK")

\* a readable archive with no entries
ZipEmpty == Zip(<<>>)

BytePool ==
    <<EmptyBytes, NotFoundMarker, Garbage, ZipJan, ZipFeb, ZipMessy, ZipHead, ZipEmpty>>
ByteStrings == {BytePool[i] : i \in 1..Len(BytePool)}

HexDigit(n) ==
    <<"0", "1", "2", "3", "4", "5", "6", "7", "8", "9", "a", "b", "c", "d", "e", "f">>[n + 1]

\* hashlib.md5(content).hexdigest(): a non-empty lowercase hex string; taken to
\* be collision-free on the byte strings of the model
ComputeMd5(content) ==
    LET i == CHOOSE j \in 1..Len(BytePool) : BytePool[j] = content
    IN  <<"d", HexDigit(i \div 16), HexDigit(i % 16)>>

(***************************************************************************)
(* Insertion-ordered dict (Python dict), as a sequence of <<key, value>>    *)
(***************************************************************************)
DictKeys(d) == {d[i][1] : i \in 1..Len(d)}

DictHas(d, k) == k \in DictKeys(d)

\* d.get(k)
DictGet(d, k) ==
    IF DictHas(d, k)
    THEN d[CHOOSE i \in 1..Len(d) : d[i][1] = k][2]
    ELSE NoneStr

\* d[k] = v: an existing key keeps its position, a new one goes last
DictSet(d, k, v) ==
    IF DictHas(d, k)
    THEN [i \in 1..Len(d) |-> IF d[i][1] = k THEN <<k, v>> ELSE d[i]]
    ELSE Append(d, <<k, v>>)

\* the mapping a dict denotes (dict equality ignores order)
DictMap(d) == [k \in DictKeys(d) |-> DictGet(d, k)]

(***************************************************************************)
(* cache_manager.py                                                        *)
(***************************************************************************)
\* the checksums file: os.path.exists and, when it exists, its lines
NoFile == [exists |-> FALSE, lines |-> <<>>]
TextFile(lines) == [exists |-> TRUE, lines |-> lines]

\* load_checksums as it would be if the first line of a filename won
RECURSIVE LoadLinesFirstWins(_, _)
LoadLinesFirstWins(lines, acc) ==
    IF lines = <<>> THEN acc
    ELSE LET parts == Split(Strip(Head(lines)))
         IN  IF Len(parts) = 2 /\ ~DictHas(acc, parts[1])
             THEN LoadLinesFirstWins(Tail(lines), DictSet(acc, parts[1], parts[2]))
             ELSE LoadLinesFirstWins(Tail(lines), acc)

\* load_checksums(checksums_file)
RECURSIVE LoadLines(_, _)
LoadLines(lines, acc) ==
    IF lines = <<>> THEN acc
    ELSE LET line == Strip(Head(lines))
             parts == Split(line)
         IN  IF line = <<>> THEN LoadLines(Tail(lines), acc)
             ELSE IF Len(parts) = 2
                  THEN LoadLines(Tail(lines), DictSet(acc, parts[1], parts[2]))
                  ELSE LoadLines(Tail(lines), acc)

LoadChecksums(file) == IF ~file.exists THEN <<>> ELSE LoadLines(file.lines, <<>>)

\* _save_checksums as it would be if it wrote the newest entry only
SaveChecksumsNewestOnly(d) ==
    IF d = <<>> THEN <<>> ELSE <<d[Len(d)][1] \o <<" ">> \o d[Len(d)][2]>>

\* CacheManager._save_checksums: the whole dict, one line per entry
SaveChecksums(d) == [i \in 1..Len(d) |-> d[i][1] \o <<" ">> \o d[i][2]]

\* the file name as it would be with the month printed without padding
LocalZipNameUnpadded(symbol, interval, year, month) ==
    symbol \o <<"-">> \o interval \o <<"-">> \o DecStr(year) \o <<"-">>
        \o DecStr(month) \o <<".", "z", "i", "p">>

\* the basename of CacheManager._get_local_zip_path
LocalZipName(symbol, interval, year, month) ==
    symbol \o <<"-">> \o interval \o <<"-">> \o DecStr(year) \o <<"-">>
        \o Pad2(month) \o <<".", "z", "i", "p">>

KeyName(key) == LocalZipName(key[1], key[2], key[3], key[4])

\* get_cached_file as it would be without the checksum comparison
GetCachedFileUnverified(fs, sums, key) ==
    IF KeyName(key) \in DOMAIN fs /\ DictHas(sums, KeyName(key))
    THEN fs[KeyName(key)]
    ELSE NoBytes

\* get_cached_file as it would be if a file the ledger does not list were trusted
GetCachedFileTrustsUnlisted(fs, sums, key) ==
    IF KeyName(key) \notin DOMAIN fs THEN NoBytes
    ELSE IF ~DictHas(sums, KeyName(key)) THEN fs[KeyName(key)]
    ELSE IF DictGet(sums, KeyName(key)) = ComputeMd5(fs[KeyName(key)]) THEN fs[KeyName(key)]
    ELSE NoBytes

\* CacheManager.get_cached_file
GetCachedFile(fs, sums, key) ==
    LET name == KeyName(key)
    IN  IF name \notin DOMAIN fs THEN NoBytes
        ELSE LET content == fs[name]
                 localMd5 == ComputeMd5(content)
                 storedMd5 == DictGet(sums, name)
             IN  IF storedMd5 # NoneStr /\ storedMd5 # <<>> /\ storedMd5 = localMd5
                 THEN content
                 ELSE NoBytes

\* the write as it would be if an existing file were left as it is
WriteFileOnce(fs, name, content) ==
    IF name \in DOMAIN fs THEN fs
    ELSE [n \in (DOMAIN fs) \cup {name} |-> IF n = name THEN content ELSE fs[n]]

\* open(path, "wb").write(content): create or replace one file
WriteFile(fs, name, content) ==
    [n \in (DOMAIN fs) \cup {name} |-> IF n = name THEN content ELSE fs[n]]

\* save_file as it would be if it left the ledger entry alone
SaveFileSumsStale(sums, key, content) == sums

\* save_file as it would be if each writer flushed a ledger of its own
SaveFileSumsAlone(sums, key, content) == <<(<<KeyName(key), ComputeMd5(content)>>)>>

\* CacheManager.save_file: the ledger after the call
SaveFileSums(sums, key, content) == DictSet(sums, KeyName(key), ComputeMd5(content))


(***************************************************************************)
(* parser.py.  A DataFrame is its index and its rows (the values of the    *)
(* columns, in column order); a call either returns a frame or raises.     *)
(***************************************************************************)
EmptyFrame == [index |-> <<>>, rows |-> <<>>]

\* DataFrame.empty
IsEmptyFrame(df) == Len(df.index) = 0

Returned(df) == [err |-> "", df |-> df]
Raised(name) == [err |-> name, df |-> EmptyFrame]

\* pd.to_datetime(value, unit="ms"): the instant that many milliseconds after the epoch
ToDatetime(ms) == [epochMs |-> ms]

KlineColumns == 12

\* the frame of one CSV row: open_time becomes the index label (set_index),
\* close_time an instant, the other ten columns stay as read
IndexedRow(r) ==
    [label |-> ToDatetime(r[1]),
     row |-> <<r[2], r[3], r[4], r[5], r[6], ToDatetime(r[7]), r[8], r[9], r[10], r[11], r[12]>>]

\* DataFrame.sort_index(): ascending by label; rows with equal labels are left
\* in the order they had (numpy sorts the short arrays of the model by insertion)
RECURSIVE InsertByLabel(_, _)
InsertByLabel(sorted, x) ==
    IF sorted = <<>> THEN <<x>>
    ELSE IF Head(sorted).label.epochMs <= x.label.epochMs
         THEN <<Head(sorted)>> \o InsertByLabel(Tail(sorted), x)
         ELSE <<x>> \o sorted

RECURSIVE SortByLabel(_)
SortByLabel(xs) ==
    IF xs = <<>> THEN <<>>
    ELSE InsertByLabel(SortByLabel(SubSeq(xs, 1, Len(xs) - 1)), xs[Len(xs)])

\* sort_index as it would be if it were left out
SortIndexSkipped(xs) == xs

\* df.sort_index(inplace=True)
SortIndex(xs) == SortByLabel(xs)

\* the frame parse_kline_zip builds from the CSV rows of the first entry
FrameOfCsv(csv) ==
    LET xs == SortIndex([i \in 1..Len(csv) |-> IndexedRow(csv[i])])
    IN  [index |-> [i \in 1..Len(xs) |-> xs[i].label],
         rows |-> [i \in 1..Len(xs) |-> xs[i].row]]

\* a field pd.read_csv found no value for
NaN == -1

\* pd.read_csv(csv_file, header=None): the first line gives the number of
\* columns; a later line with more fields is a ParserError, one with fewer is
\* filled up with NaN; a file without lines is an EmptyDataError
ReadCsv(csv) ==
    IF csv = <<>> THEN [err |-> "EmptyDataError", width |-> 0, table |-> <<>>]
    ELSE LET width == Len(csv[1])
         IN  IF \E i \in 1..Len(csv) : Len(csv[i]) > width
             THEN [err |-> "ParserError", width |-> width, table |-> <<>>]
             ELSE [err |-> "", width |-> width,
                   table |-> [i \in 1..Len(csv) |->
                                [c \in 1..width |->
                                   IF c <= Len(csv[i]) THEN csv[i][c] ELSE NaN]]]

\* zip_file.open(file_names[i]): ZipFile looks the name up in its name table,
\* where a later entry of the same name has replaced an earlier one
OpenEntry(content, i) ==
    LET same == {j \in 1..Len(content.names) : content.names[j] = content.names[i]}
    IN  content.entries[CHOOSE j \in same : \A k \in same : k <= j]

\* parse_kline_zip from `csv_filename = file_names[0]` on: the entry is read,
\* the 12 column names are assigned (ValueError for a table of another width)
ParseFirstFile(content) ==
    LET read == ReadCsv(OpenEntry(content, 1))
    IN  IF read.err # "" THEN Raised(read.err)
        ELSE IF read.width # KlineColumns THEN Raised("ValueError")
        ELSE Returned(FrameOfCsv(read.table))

\* parse_kline_zip as it would be without the test `if not file_names`:
\* file_names[0] of an archive with no entries is an IndexError
ParseKlineZipNoEmptyTest(content) ==
    IF content = NotFoundMarker THEN Returned(EmptyFrame)
    ELSE IF content.kind # "zip" THEN Raised("BadZipFile")
    ELSE IF content.names = <<>> THEN Raised("IndexError")
    ELSE ParseFirstFile(content)

\* parse_kline_zip(zip_content)
ParseKlineZip(content) ==
    IF content = NotFoundMarker THEN Returned(EmptyFrame)
    ELSE IF content.kind # "zip" THEN Raised("BadZipFile")
    ELSE IF content.names = <<>> THEN Returned(EmptyFrame)
    ELSE ParseFirstFile(content)

(***************************************************************************)
(* binance_client.py                                                       *)
(***************************************************************************)
\* str.upper() on the letters the model uses
UpperChar(c) ==
    CASE c = "s" -> "S" [] c = "t" -> "T" [] c = "u" -> "U" [] c = "b" -> "B"
      [] c = "e" -> "E" [] c = "v" -> "V" [] c = "n" -> "N" [] OTHER -> c

Upper(s) == [i \in 1..Len(s) |-> UpperChar(s[i])]

DigitValue(c) ==
    CASE c = "0" -> 0 [] c = "1" -> 1 [] c = "2" -> 2 [] c = "3" -> 3 [] c = "4" -> 4
      [] c = "5" -> 5 [] c = "6" -> 6 [] c = "7" -> 7 [] c = "8" -> 8 [] c = "9" -> 9

\* float(text) for a text of decimal digits
RECURSIVE ParseFloat(_)
ParseFloat(text) ==
    IF Len(text) = 1 THEN DigitValue(text[1])
    ELSE 10 * ParseFloat(SubSeq(text, 1, Len(text) - 1)) + DigitValue(text[Len(text)])

\* float(item.get("quoteVolume", 0.0))
QuoteVolume(item) == IF item.quoteVolume = NoneStr THEN 0 ELSE ParseFloat(item.quoteVolume)

TestLikeWords == {<<"T", "E", "S", "T">>, <<"S", "T", "U", "B">>, <<"E", "V", "E", "N", "T">>}

\* _filter_symbols as it would be if it tested the symbol as written
RECURSIVE FilterSymbolsCaseSensitive(_, _)
FilterSymbolsCaseSensitive(data, quote) ==
    IF data = <<>> THEN <<>>
    ELSE LET symbol == Head(data).symbol
             rest == FilterSymbolsCaseSensitive(Tail(data), quote)
         IN  IF ~EndsWith(symbol, quote) THEN rest
             ELSE IF \E x \in TestLikeWords : Contains(symbol, x) THEN rest
             ELSE <<(<<symbol, QuoteVolume(Head(data))>>)>> \o rest

\* PairsFetcher._filter_symbols: the (symbol, volume) pairs kept, in snapshot order
RECURSIVE FilterSymbols(_, _)
FilterSymbols(data, quote) ==
    IF data = <<>> THEN <<>>
    ELSE LET symbol == Head(data).symbol
             rest == FilterSymbols(Tail(data), quote)
         IN  IF ~EndsWith(symbol, quote) THEN rest
             ELSE IF \E x \in TestLikeWords : Contains(Upper(symbol), x) THEN rest
             ELSE <<(<<symbol, QuoteVolume(Head(data))>>)>> \o rest

\* the sort as it would be if, of two equal volumes, the later entry went first
RECURSIVE InsertByVolumeDescTiesFirst(_, _)
InsertByVolumeDescTiesFirst(sorted, x) ==
    IF sorted = <<>> THEN <<x>>
    ELSE IF Head(sorted)[2] > x[2]
         THEN <<Head(sorted)>> \o InsertByVolumeDescTiesFirst(Tail(sorted), x)
         ELSE <<x>> \o sorted

\* list.sort(key=volume, reverse=True): stable, equal volumes keep their order
RECURSIVE InsertByVolumeDesc(_, _)
InsertByVolumeDesc(sorted, x) ==
    IF sorted = <<>> THEN <<x>>
    ELSE IF Head(sorted)[2] >= x[2]
         THEN <<Head(sorted)>> \o InsertByVolumeDesc(Tail(sorted), x)
         ELSE <<x>> \o sorted

RECURSIVE SortByVolumeDesc(_)
SortByVolumeDesc(xs) ==
    IF xs = <<>> THEN <<>>
    ELSE InsertByVolumeDesc(SortByVolumeDesc(SubSeq(xs, 1, Len(xs) - 1)), xs[Len(xs)])

\* xs[:n]
Slice(xs, n) ==
    IF n >= 0 THEN SubSeq(xs, 1, IF n < Len(xs) THEN n ELSE Len(xs))
    ELSE SubSeq(xs, 1, IF Len(xs) + n > 0 THEN Len(xs) + n ELSE 0)

\* PairsFetcher._sort_and_select_top
SortAndSelectTop(filtered, limit) == Slice(SortByVolumeDesc(filtered), limit)

\* the value get_top_pairs returns from one snapshot
TopPairs(data, quote, limit) ==
    LET top == SortAndSelectTop(FilterSymbols(data, quote), limit)
    IN  [i \in 1..Len(top) |-> top[i][1]]

\* stop_after_attempt(5) of get_top_pairs
PairsMaxAttempts == 5

\* the stop condition of get_top_pairs as it would be with one attempt more
PairsStopLate(attempt) == attempt >= PairsMaxAttempts + 1

\* tenacity's stop condition on get_top_pairs, asked after a failed attempt
PairsStop(attempt) == attempt >= PairsMaxAttempts

\* retry_if_exception_type((RequestError, HTTPStatusError))
PairsRetried == {"RequestError", "HTTPStatusError"}

(***************************************************************************)
(* Bounds and input sets of the cache scenarios                            *)
(***************************************************************************)
MaxOps == 4

Interval1m == <<"1", "m">>

\* archive keys (symbol, interval, year, month).  KeyDashA and KeyDashB are
\* distinct keys with one filename; KeySpace has whitespace in its symbol.
KeyPlain == <<(<<"A">>), Interval1m, 2025, 1>>
KeyDashA == <<(<<"A", "-", "1", "m">>), (<<"1", "d">>), 2025, 1>>
KeyDashB == <<(<<"A">>), (<<"1", "m", "-", "1", "d">>), 2025, 1>>
KeySpace == <<(<<"A", " ", "B">>), Interval1m, 2025, 1>>

CacheKeys == {KeyPlain, KeyDashA, KeyDashB, KeySpace}
CacheContents == {EmptyBytes, Garbage, ZipJan}

\* what a writer other than the CacheManager leaves in a cache file
OutsideContents == {Garbage}

NoCall == <<"none", KeyPlain, NoBytes>>

IdleTicker == [pc |-> "idle", attempt |-> 0, err |-> "", snapshot |-> <<>>,
               quote |-> <<>>, limit |-> 0, result |-> <<>>]
IdleCfg == [symbols |-> <<>>, interval |-> Interval1m,
            startYear |-> 2025, startMonth |-> 1, endYear |-> 2025, endMonth |-> 1]

IdleAll == [pc |-> "idle", results |-> <<>>]
IdleFetch == [pc |-> "idle", attempt |-> 0, log |-> <<>>, result |-> NoBytes, err |-> "",
              key |-> KeyPlain, url |-> <<>>]
IdleParse == [pc |-> "idle", input |-> NoBytes, out |-> Returned(EmptyFrame)]

LoaderIdle ==
    /\ cfg = IdleCfg
    /\ task = <<>>
    /\ period = <<>>
    /\ doneOrder = <<>>
    /\ allRun = IdleAll

(***************************************************************************)
(* SpecCache: one CacheManager driven through its API, the cache directory *)
(* open to outside change, and the process restarted from the ledger file. *)
(***************************************************************************)
InitCache ==
    /\ files = <<>>
    /\ checksums = <<>>
    /\ ledgerFile = NoFile
    /\ last = [op |-> "none", key |-> KeyPlain, content |-> NoBytes,
               ret |-> NoBytes, prev |-> NoCall]
    /\ saved = <<>>
    /\ nOps = 0
    /\ ticker = IdleTicker
    /\ LoaderIdle
    /\ fetch = IdleFetch
    /\ parsed = IdleParse

Called(op, key, content, ret) ==
    /\ last' = [op |-> op, key |-> key, content |-> content, ret |-> ret,
                prev |-> <<last.op, last.key, last.content>>]
    /\ nOps' = nOps + 1

\* cache.save_file(symbol, interval, year, month, content)
SaveFile(key, content) ==
    /\ nOps < MaxOps
    /\ files' = WriteFile(files, KeyName(key), content)
    /\ checksums' = SaveFileSums(checksums, key, content)
    /\ ledgerFile' = TextFile(SaveChecksums(checksums'))
    /\ saved' = Append(saved, <<key, content>>)
    /\ Called("save", key, content, NoBytes)
    /\ UNCHANGED <<ticker, loaderVars, fetch, parsed>>

\* cache.get_cached_file(symbol, interval, year, month)
GetCached(key) ==
    /\ nOps < MaxOps
    /\ Called("get", key, NoBytes, GetCachedFile(files, checksums, key))
    /\ UNCHANGED <<cacheVars, saved, ticker, loaderVars, fetch, parsed>>

\* something other than the CacheManager rewrites an existing cache file
CorruptFile(key, content) ==
    /\ nOps < MaxOps
    /\ KeyName(key) \in DOMAIN files
    /\ files[KeyName(key)] # content
    /\ files' = WriteFile(files, KeyName(key), content)
    /\ Called("corrupt", key, content, NoBytes)
    /\ UNCHANGED <<checksums, ledgerFile, saved, ticker, loaderVars, fetch, parsed>>

\* a new process: main() builds the CacheManager from load_checksums(file)
Restart ==
    /\ nOps < MaxOps
    /\ checksums' = LoadChecksums(ledgerFile)
    /\ Called("restart", KeyPlain, NoBytes, NoBytes)
    /\ UNCHANGED <<files, ledgerFile, saved, ticker, loaderVars, fetch, parsed>>

NextCache ==
    \/ \E key \in CacheKeys, content \in CacheContents : SaveFile(key, content)
    \/ \E key \in CacheKeys : GetCached(key)
    \/ \E key \in CacheKeys, content \in OutsideContents : CorruptFile(key, content)
    \/ Restart

SpecCache == InitCache /\ [][NextCache]_vars

(***************************************************************************)
(* SpecLedger: load_checksums applied to every small ledger file           *)
(***************************************************************************)
\* the size of the largest ledger file: its characters, line ends included
MaxFileChars == 10

LineChars == {"a", " "}

SeqsUpTo(S, n) == UNION {[1..k -> S] : k \in 0..n}

\* the texts of at most n characters, as their lines
RECURSIVE LedgerLines(_)
LedgerLines(n) ==
    {<<>>} \cup UNION { {<<line>> \o rest : rest \in LedgerLines(n - Len(line) - 1)} :
                         line \in SeqsUpTo(LineChars, n - 1) }

\* no file, or a file of at most n characters
LedgerFiles(n) == {NoFile} \cup {TextFile(ls) : ls \in LedgerLines(n)}

InitLedger ==
    /\ files = <<>>
    /\ checksums = <<>>
    /\ ledgerFile \in LedgerFiles(MaxFileChars)
    /\ last = [op |-> "none", key |-> KeyPlain, content |-> NoBytes,
               ret |-> NoBytes, prev |-> NoCall]
    /\ saved = <<>>
    /\ nOps = 0
    /\ ticker = IdleTicker
    /\ LoaderIdle
    /\ fetch = IdleFetch
    /\ parsed = IdleParse

\* checksums = load_checksums(checksums_file)
LoadChecksumsCall ==
    /\ nOps = 0
    /\ checksums' = LoadChecksums(ledgerFile)
    /\ Called("load", KeyPlain, NoBytes, NoBytes)
    /\ UNCHANGED <<files, ledgerFile, saved, ticker, loaderVars, fetch, parsed>>

NextLedger == LoadChecksumsCall

SpecLedger == InitLedger /\ [][NextLedger]_vars

(***************************************************************************)
(* Claims about the cache and the ledger                                   *)
(***************************************************************************)
SavedKeys == {saved[i][1] : i \in 1..Len(saved)}
SavedNames == {KeyName(k) : k \in SavedKeys}

\* the content of the latest save_file that wrote filename `name`
LastSavedContent(name) ==
    saved[CHOOSE i \in 1..Len(saved) :
            /\ KeyName(saved[i][1]) = name
            /\ \A j \in (i + 1)..Len(saved) : KeyName(saved[j][1]) # name][2]

\* C1: a get_cached_file(key) that directly follows save_file(key, b) returns
\* exactly b, for every key and every b (the empty byte string included),
\* whatever was written before.
C1_SaveThenGet ==
    (last.op = "get" /\ last.prev[1] = "save" /\ last.prev[2] = last.key)
        => last.ret = last.prev[3]

\* C1 witness: the empty byte string read back after an earlier save of another key
C1_Witness ==
    /\ last.op = "get"
    /\ last.prev = <<"save", last.key, EmptyBytes>>
    /\ last.ret = EmptyBytes
    /\ Len(saved) = 2
    /\ saved[1][1] # last.key

\* C2: when the bytes on disk under a key's filename have another checksum
\* than the bytes save_file last wrote there, get_cached_file(key) returns
\* None, never those bytes.
C2_CorruptedReadsAbsent ==
    LET name == KeyName(last.key)
    IN  ( /\ last.op = "get"
          /\ name \in DOMAIN files
          /\ name \in SavedNames
          /\ ComputeMd5(files[name]) # ComputeMd5(LastSavedContent(name)) )
            => last.ret = NoBytes

\* C2 witness: save, then the file rewritten from outside, then the read
C2_Witness ==
    /\ last.op = "get"
    /\ last.prev[1] = "corrupt"
    /\ last.prev[2] = last.key
    /\ last.key \in SavedKeys
    /\ files[KeyName(last.key)] # LastSavedContent(KeyName(last.key))
    /\ last.ret = NoBytes

\* only save_file has been called, at least once, since the empty start
OnlySaves == nOps > 0 /\ nOps = Len(saved)

LedgerRoundTrips ==
    LET m == DictMap(LoadChecksums(ledgerFile))
    IN  /\ m = DictMap(checksums)
        /\ Cardinality(DOMAIN m) = Cardinality(SavedKeys)
        /\ \A name \in DOMAIN m : m[name] = ComputeMd5(LastSavedContent(name))

\* C9 as claimed: after save_file for N distinct keys from an empty ledger,
\* load_checksums of the ledger file returns the in-memory mapping, with
\* exactly N entries, each the checksum of the bytes written for its filename.
C9_Original == OnlySaves => LedgerRoundTrips

DistinctNames == \A k1, k2 \in SavedKeys : k1 # k2 => KeyName(k1) # KeyName(k2)
NoSpaceNames == \A name \in SavedNames : ~HasSpace(name)

\* C9 as amended: the same, for keys whose filenames are pairwise distinct
\* and contain no whitespace.
C9_LedgerRoundTrip == (OnlySaves /\ DistinctNames /\ NoSpaceNames) => LedgerRoundTrips

\* C9 witness: two keys written, one of them twice
C9_Witness ==
    /\ OnlySaves /\ DistinctNames /\ NoSpaceNames
    /\ Len(saved) = 3
    /\ Cardinality(SavedKeys) = 2
    /\ Len(LoadChecksums(ledgerFile)) = 2

\* save_file calls only, then one get_cached_file
GetAfterSaves == last.op = "get" /\ nOps = Len(saved) + 1

\* the content of the latest save_file made with key `key`
LastSavedWithKey(key) ==
    saved[CHOOSE i \in 1..Len(saved) :
            /\ saved[i][1] = key
            /\ \A j \in (i + 1)..Len(saved) : saved[j][1] # key][2]

\* C11 as claimed: after any sequence of save_file calls, get_cached_file(key)
\* returns the bytes of the most recent save_file made for that key
C11_Original ==
    (GetAfterSaves /\ last.key \in SavedKeys) => last.ret = LastSavedWithKey(last.key)

\* C11 as amended: after any sequence of save_file calls, get_cached_file(key)
\* returns the bytes of the most recent save_file that wrote the key's file
\* name; a later save_file on that name replaces file and checksum, so the
\* read returns the new bytes, never the old ones
C11_LastWriteWins ==
    (GetAfterSaves /\ KeyName(last.key) \in SavedNames)
        => last.ret = LastSavedContent(KeyName(last.key))

\* C11 witness: one key saved twice with different bytes, then read
C11_Witness ==
    /\ GetAfterSaves
    /\ Len(saved) = 2
    /\ saved[1][1] = last.key /\ saved[2][1] = last.key
    /\ saved[1][2] # saved[2][2]
    /\ last.ret = saved[2][2]

\* C12: get_cached_file(key) returns the bytes on disk exactly when the key's
\* file exists and the ledger holds, for its name, the checksum of those
\* bytes; with no file, no entry or another checksum it returns None
C12_BytesOnlyOnMatch ==
    last.op = "get" =>
        LET name == KeyName(last.key)
            match == /\ name \in DOMAIN files
                     /\ \E i \in 1..Len(checksums) :
                           checksums[i] = <<name, ComputeMd5(files[name])>>
        IN  /\ match => last.ret = files[name]
            /\ ~match => last.ret = NoBytes

\* C12 witness: the file exists, the ledger of the restarted process has no
\* entry for it, and the read returns None
C12_Witness ==
    /\ last.op = "get"
    /\ KeyName(last.key) \in DOMAIN files
    /\ ~DictHas(checksums, KeyName(last.key))
    /\ last.ret = NoBytes

(***************************************************************************)
(* SpecCrash: the CacheManager of SpecCache, whose process can be killed   *)
(* inside save_file and started again from the ledger file.  save_file     *)
(* writes the cache file in place (open(path, "wb"), write), then sets the *)
(* ledger entry and rewrites the ledger file in place; a kill leaves of a  *)
(* file being written any prefix of what was to be written.                *)
(***************************************************************************)
\* of a ledger line cut short by a kill, the cuts within MaxCut characters of
\* its start or its end are told apart
MaxCut == 3

\* KeyDashA and KeyDashB share a filename, KeySpace has whitespace in its name
CrashKeys == {KeyDashA, KeyDashB, KeySpace}
CrashContents == {EmptyBytes, ZipHead, ZipJan}

\* what f.write(content) can have put into the file when it did not finish:
\* a shorter prefix of the content
StrictPrefixes(content) ==
    IF content = EmptyBytes THEN {}
    ELSE IF content.kind = "zip" THEN {EmptyBytes, ZipHead}
    ELSE {EmptyBytes}

CutPoints(line) ==
    {j \in 1..(Len(line) - 1) : j <= MaxCut \/ j >= Len(line) - MaxCut}

\* what _save_checksums can have put into the ledger file when it was killed:
\* some of the lines, and possibly the beginning of the next one
CutTexts(lines) ==
    {SubSeq(lines, 1, k) : k \in 0..Len(lines)}
        \cup UNION { {SubSeq(lines, 1, k) \o <<SubSeq(lines[k + 1], 1, j)>> :
                        j \in CutPoints(lines[k + 1])} : k \in 0..(Len(lines) - 1) }

\* the process is running: it was not killed, or it was started again
Alive == last.op # "killed"

\* the process is killed inside save_file(key, content): during the file
\* write, between the file write and the ledger flush, or during the flush.
\* Its memory is gone; what it wrote so far stays on disk.
CrashInSave(key, content) ==
    /\ Alive
    /\ nOps + 2 < MaxOps
    /\ \/ /\ \E part \in StrictPrefixes(content) :
                files' = WriteFile(files, KeyName(key), part)
          /\ saved' = Append(saved, <<key, content, "file">>)
          /\ UNCHANGED ledgerFile
       \/ /\ files' = WriteFile(files, KeyName(key), content)
          /\ saved' = Append(saved, <<key, content, "between">>)
          /\ UNCHANGED ledgerFile
       \/ /\ files' = WriteFile(files, KeyName(key), content)
          /\ saved' = Append(saved, <<key, content, "flush">>)
          /\ \E text \in CutTexts(SaveChecksums(SaveFileSums(checksums, key, content))) :
                ledgerFile' = TextFile(text)
    /\ checksums' = <<>>
    /\ Called("killed", key, content, NoBytes)
    /\ UNCHANGED <<ticker, loaderVars, fetch, parsed>>

NextCrash ==
    \/ \E key \in CrashKeys, content \in CrashContents : Alive /\ SaveFile(key, content)
    \/ \E key \in CrashKeys : Alive /\ GetCached(key)
    \/ \E key \in CrashKeys, content \in CrashContents : CrashInSave(key, content)
    \/ Restart

SpecCrash == InitCache /\ [][NextCrash]_vars

\* the save_file calls that completed, and those the process was killed in
\* after the cache file had been written
Completed == {i \in 1..Len(saved) : Len(saved[i]) = 2}
KilledAfterWrite == {i \in 1..Len(saved) : Len(saved[i]) = 3 /\ saved[i][3] # "file"}
WasKilled == \E i \in 1..Len(saved) : Len(saved[i]) = 3

\* C28 as claimed: after a kill inside save_file and a restart from the ledger
\* file, get_cached_file(key) returns None or the complete bytes of a
\* completed save_file made for that key
C28_Original ==
    (last.op = "get" /\ WasKilled) =>
        \/ last.ret = NoBytes
        \/ \E i \in Completed : saved[i] = <<last.key, last.ret>>

\* C28 as amended: after a kill inside save_file and a restart from the ledger
\* file, get_cached_file(key) returns None or the complete bytes given to a
\* save_file on the key's file name that completed or that was killed after
\* its file write had finished; never a partial file, never other bytes
C28_CrashNeverWrongBytes ==
    (last.op = "get" /\ WasKilled) =>
        \/ last.ret = NoBytes
        \/ \E i \in Completed \cup KilledAfterWrite :
              /\ KeyName(saved[i][1]) = KeyName(last.key)
              /\ saved[i][2] = last.ret

\* C28 witness: a completed save_file, a second one on the same key killed
\* while it wrote the file, which holds a part of the new bytes under the
\* old checksum; after the restart the read returns None
C28_Witness ==
    /\ last.op = "get" /\ last.ret = NoBytes
    /\ Len(saved) = 2
    /\ saved[1] = <<last.key, ZipHead>>
    /\ saved[2] = <<last.key, ZipJan, "file">>
    /\ files[KeyName(last.key)] = EmptyBytes
    /\ DictGet(checksums, KeyName(last.key)) = ComputeMd5(ZipHead)

\* C28 witness for the flush: the kill cut the ledger file inside the
\* checksum of the key's line, and the read returns None
C28_WitnessFlush ==
    /\ last.op = "get" /\ last.ret = NoBytes
    /\ Len(saved) = 1
    /\ saved[1] = <<last.key, ZipJan, "flush">>
    /\ files[KeyName(last.key)] = ZipJan
    /\ DictHas(checksums, KeyName(last.key))

\* C29: save_file replaces the cache file atomically: whenever a file appears
\* or changes, a kill inside save_file included, it then holds the complete
\* bytes save_file was called with; else it holds what it held before
C29_AtomicReplace ==
    [][ \A name \in DOMAIN files' :
          (name \notin DOMAIN files \/ files'[name] # files[name]) =>
              /\ last'.op \in {"save", "killed"}
              /\ name = KeyName(last'.key)
              /\ files'[name] = last'.content ]_vars

\* C30: after every completed save_file the ledger file holds exactly the
\* in-memory ledger: one line "<filename> <checksum>" per entry, in the
\* ledger's order, no filename on two lines, and the line of the filename
\* just written carries the checksum of the bytes just written, however
\* often the key was written before
C30_LedgerFileIsLedger ==
    last.op = "save" =>
        LET lines == ledgerFile.lines
            name == KeyName(last.key)
        IN  /\ ledgerFile.exists
            /\ Len(lines) = Len(checksums)
            /\ \A i \in 1..Len(lines) :
                  lines[i] = checksums[i][1] \o <<" ">> \o checksums[i][2]
            /\ \A i, j \in 1..Len(checksums) : i # j => checksums[i][1] # checksums[j][1]
            /\ Cardinality({i \in 1..Len(lines) :
                                lines[i] = name \o <<" ">> \o ComputeMd5(last.content)}) = 1
            /\ \A i \in 1..Len(lines) :
                  SubSeq(lines[i], 1, Len(name) + 1) = name \o <<" ">> =>
                      lines[i] = name \o <<" ">> \o ComputeMd5(last.content)

\* C30 witness: one key written three times with three contents, another key
\* in between; two lines
C30_Witness ==
    /\ last.op = "save"
    /\ Len(saved) = 4
    /\ saved[1][1] = last.key /\ saved[2][1] = last.key /\ saved[3][1] # last.key
    /\ KeyName(saved[3][1]) # KeyName(last.key)
    /\ Cardinality({saved[1][2], saved[2][2], saved[4][2]}) = 3
    /\ Len(ledgerFile.lines) = 2

\* positions where a whitespace-free run of `line` starts, and where one ends
TokenStarts(line) ==
    {i \in 1..Len(line) : ~IsSpace(line[i]) /\ (i = 1 \/ IsSpace(line[i - 1]))}
TokenEnds(line) ==
    {i \in 1..Len(line) : ~IsSpace(line[i]) /\ (i = Len(line) \/ IsSpace(line[i + 1]))}
Min(S) == CHOOSE x \in S : \A y \in S : x <= y
Max(S) == CHOOSE x \in S : \A y \in S : y <= x
IsValidLine(line) == Cardinality(TokenStarts(line)) = 2
FirstToken(line) == SubSeq(line, Min(TokenStarts(line)), Min(TokenEnds(line)))
SecondToken(line) == SubSeq(line, Max(TokenStarts(line)), Max(TokenEnds(line)))

\* C10: load_checksums returns the empty mapping for a missing or empty file;
\* otherwise its keys are the first tokens of the lines with exactly two
\* whitespace-separated tokens, every other line is ignored, and a filename
\* found on several such lines maps to the second token of the last of them.
C10_LoadChecksums ==
    last.op = "load" =>
        LET m == DictMap(checksums)
            lines == ledgerFile.lines
            valid == {i \in 1..Len(lines) : IsValidLine(lines[i])}
        IN  /\ (~ledgerFile.exists \/ lines = <<>>) => checksums = <<>>
            /\ DOMAIN m = {FirstToken(lines[i]) : i \in valid}
            /\ \A i \in valid :
                 (\A j \in valid : j > i => FirstToken(lines[j]) # FirstToken(lines[i]))
                    => m[FirstToken(lines[i])] = SecondToken(lines[i])

\* C10 witness: a filename on two valid lines with different checksums
C10_Witness ==
    /\ last.op = "load"
    /\ Len(ledgerFile.lines) = 2
    /\ IsValidLine(ledgerFile.lines[1]) /\ IsValidLine(ledgerFile.lines[2])
    /\ FirstToken(ledgerFile.lines[1]) = FirstToken(ledgerFile.lines[2])
    /\ SecondToken(ledgerFile.lines[1]) # SecondToken(ledgerFile.lines[2])
    /\ checksums = <<(<<FirstToken(ledgerFile.lines[2]), SecondToken(ledgerFile.lines[2])>>)>>

\* C10 witness for the ignored lines: a three-token line beside a valid one
C10_WitnessIgnored ==
    /\ last.op = "load"
    /\ Len(ledgerFile.lines) = 2
    /\ Cardinality(TokenStarts(ledgerFile.lines[1])) = 3
    /\ IsValidLine(ledgerFile.lines[2])
    /\ Len(checksums) = 1

(***************************************************************************)
(* SpecPairs: one get_top_pairs call against a ticker endpoint that may    *)
(* serve any small snapshot, fail, or answer with something unreadable.    *)
(***************************************************************************)
MaxSnapshot == 3
MaxLimit == 2

QuoteBTC == <<"B", "T", "C">>
QuoteUSDT == <<"U", "S", "D", "T">>

TickerEntry(symbol, quoteVolume) == [symbol |-> symbol, quoteVolume |-> quoteVolume]
\* the entries a snapshot is made of: two pairs that can tie, test-like names in
\* either case with the highest volume, another quote asset, a missing volume
TickerEntries ==
    { TickerEntry(<<"E", "T", "H", "B", "T", "C">>, <<"1", "0", "0">>),
      TickerEntry(<<"E", "T", "H", "B", "T", "C">>, NoneStr),
      TickerEntry(<<"S", "O", "L", "B", "T", "C">>, <<"5", "0">>),
      TickerEntry(<<"S", "O", "L", "B", "T", "C">>, <<"1", "0", "0">>),
      TickerEntry(<<"T", "E", "S", "T", "B", "T", "C">>, <<"9", "9", "9">>),
      TickerEntry(<<"s", "t", "u", "b", "B", "T", "C">>, <<"9", "9", "9">>),
      TickerEntry(<<"B", "T", "C", "U", "S", "D", "T">>, <<"9", "9", "9">>) }
Snapshots == SeqsUpTo(TickerEntries, MaxSnapshot)

InitPairs ==
    /\ files = <<>>
    /\ checksums = <<>>
    /\ ledgerFile = NoFile
    /\ last = [op |-> "none", key |-> KeyPlain, content |-> NoBytes,
               ret |-> NoBytes, prev |-> NoCall]
    /\ saved = <<>>
    /\ nOps = 0
    /\ \E quote \in {QuoteBTC, QuoteUSDT}, limit \in 0..MaxLimit :
         ticker = [pc |-> "request", attempt |-> 1, err |-> "", snapshot |-> <<>>,
                   quote |-> quote, limit |-> limit, result |-> <<>>]
    /\ LoaderIdle
    /\ fetch = IdleFetch
    /\ parsed = IdleParse

\* the request is answered 200 with `snapshot`: filter, sort, cut, return
TickerAnsweredWith(snapshot) ==
    /\ ticker.pc = "request"
    /\ ticker' = [ticker EXCEPT !.pc = "returned", !.err = "",
                    !.snapshot = snapshot,
                    !.result = TopPairs(snapshot, ticker.quote, ticker.limit)]
    /\ UNCHANGED <<cacheVars, apiVars, loaderVars, fetch, parsed>>

TickerAnswered == \E snapshot \in Snapshots : TickerAnsweredWith(snapshot)

\* the attempt ends with RequestError (no response) or HTTPStatusError (an
\* error status, from raise_for_status): tenacity waits and calls again, or
\* after the last attempt gives up with RetryError
TickerFailed(error) ==
    /\ ticker.pc = "request"
    /\ ticker' = IF ~PairsStop(ticker.attempt)
                 THEN [ticker EXCEPT !.attempt = ticker.attempt + 1, !.err = error]
                 ELSE [ticker EXCEPT !.pc = "raised RetryError", !.err = error]
    /\ UNCHANGED <<cacheVars, apiVars, loaderVars, fetch, parsed>>

\* any other exception (response.json() on a body that is not JSON) is not
\* retried: it leaves get_top_pairs as it is
TickerUnreadable ==
    /\ ticker.pc = "request"
    /\ ticker' = [ticker EXCEPT !.pc = "raised", !.err = "JSONDecodeError"]
    /\ UNCHANGED <<cacheVars, apiVars, loaderVars, fetch, parsed>>

NextPairs ==
    \/ TickerAnswered
    \/ \E error \in PairsRetried : TickerFailed(error)
    \/ TickerUnreadable

SpecPairs == InitPairs /\ [][NextPairs]_vars

\* the snapshot positions that pass the filter of the claim
Eligible(snapshot, quote) ==
    {i \in 1..Len(snapshot) :
        /\ EndsWith(snapshot[i].symbol, quote)
        /\ \A x \in TestLikeWords : ~Contains(Upper(snapshot[i].symbol), x)}

\* how many eligible entries come before entry i by volume descending,
\* snapshot order among equal volumes
RankOf(snapshot, quote, i) ==
    Cardinality({k \in Eligible(snapshot, quote) :
        \/ QuoteVolume(snapshot[k]) > QuoteVolume(snapshot[i])
        \/ (QuoteVolume(snapshot[k]) = QuoteVolume(snapshot[i]) /\ k < i)})

C8_WitnessEmpty ==
    /\ ticker.pc = "returned"
    /\ ticker.limit > 0
    /\ Len(ticker.snapshot) > 0
    /\ ticker.result = <<>>

\* C24: the result of get_top_pairs lists snapshot entries by volume
\* descending, entries of equal volume in their snapshot order; an entry left
\* out by the cut at `limit` has a lower volume than every entry kept, or the
\* same volume as one and a later place in the snapshot
C24_TiesKeepSnapshotOrder ==
    ticker.pc = "returned" =>
        LET snap == ticker.snapshot
            el == Eligible(snap, ticker.quote)
            n == Len(ticker.result)
            vol(i) == QuoteVolume(snap[i])
        IN  \E f \in [1..n -> el] :
              /\ \A j \in 1..n : ticker.result[j] = snap[f[j]].symbol
              /\ \A j, k \in 1..n : j < k =>
                    \/ vol(f[j]) > vol(f[k])
                    \/ (vol(f[j]) = vol(f[k]) /\ f[j] < f[k])
              /\ \A i \in el \ {f[j] : j \in 1..n} :
                    /\ n = ticker.limit
                    /\ \A j \in 1..n :
                          \/ vol(f[j]) > vol(i)
                          \/ (vol(f[j]) = vol(i) /\ f[j] < i)

\* C24 witness: two pairs of equal volume, the one with the lower volume first
\* in the snapshot, and a cut that keeps two of the three
C24_Witness ==
    /\ ticker.pc = "returned"
    /\ ticker.quote = QuoteBTC /\ ticker.limit = 2
    /\ ticker.snapshot =
         << TickerEntry(<<"E", "T", "H", "B", "T", "C">>, NoneStr),
            TickerEntry(<<"S", "O", "L", "B", "T", "C">>, <<"1", "0", "0">>),
            TickerEntry(<<"E", "T", "H", "B", "T", "C">>, <<"1", "0", "0">>) >>
    /\ ticker.result = << <<"S", "O", "L", "B", "T", "C">>, <<"E", "T", "H", "B", "T", "C">> >>

\* C24 witness for the cut: of two pairs of equal volume the first survives
C24_WitnessCut ==
    /\ ticker.pc = "returned"
    /\ ticker.quote = QuoteBTC /\ ticker.limit = 1
    /\ ticker.snapshot =
         << TickerEntry(<<"S", "O", "L", "B", "T", "C">>, <<"1", "0", "0">>),
            TickerEntry(<<"E", "T", "H", "B", "T", "C">>, <<"1", "0", "0">>) >>
    /\ ticker.result = << <<"S", "O", "L", "B", "T", "C">> >>

\* C22: get_top_pairs makes at most 5 snapshot requests: an attempt that ends
\* in a transport error or an error status is retried while fewer than 5
\* attempts were made; the first snapshot received gives the result and no
\* further request is made; the call gives up only after 5 failed attempts;
\* an error of another kind ends the call without a retry
C22_AtMostFiveSnapshotRequests ==
    [][ /\ ticker.pc = "request"
        /\ ticker.attempt <= 5
        /\ ticker'.pc = "request" =>
              /\ ticker'.err \in {"RequestError", "HTTPStatusError"}
              /\ ticker.attempt < 5 /\ ticker'.attempt = ticker.attempt + 1
        /\ ticker'.pc # "request" => ticker'.attempt = ticker.attempt
        /\ ticker'.pc = "returned" =>
              /\ ticker'.err = ""
              /\ ticker'.result = TopPairs(ticker'.snapshot, ticker.quote, ticker.limit)
        /\ ticker'.pc = "raised RetryError" =>
              /\ ticker.attempt = 5
              /\ ticker'.err \in {"RequestError", "HTTPStatusError"}
        /\ ticker'.err \in {"RequestError", "HTTPStatusError"} =>
              /\ ticker'.pc \in {"request", "raised RetryError"}
              /\ ticker'.pc = "request" <=> ticker.attempt < 5
        /\ ticker'.err \notin {"", "RequestError", "HTTPStatusError"} =>
              ticker'.pc = "raised" ]_vars

\* C22 witness: four failed attempts of both kinds, then the snapshot on the
\* fifth request
C22_Witness ==
    /\ ticker.pc = "returned"
    /\ ticker.attempt = 5
    /\ Len(ticker.snapshot) = 2
    /\ Len(ticker.result) = 2

\* C22 witness for the failure: the fifth attempt failed too
C22_WitnessExhausted ==
    /\ ticker.pc = "raised RetryError"
    /\ ticker.attempt = 5
    /\ ticker.err = "HTTPStatusError"

(***************************************************************************)
(* fetcher.py and data_loader.py.  The coroutines run on one event loop:   *)
(* an action is what one coroutine does between two awaits.                *)
(***************************************************************************)
\* stop_after_attempt(5) of BinanceFetcher._fetch_url_with_retry
FetchMaxAttempts == 5

\* stop_after_attempt as it would be with one attempt more
StopAfterAttemptLate(attempt) == attempt >= FetchMaxAttempts + 1

\* tenacity's stop condition, asked after a failed attempt
StopAfterAttempt(attempt) == attempt >= FetchMaxAttempts

\* response.raise_for_status(): HTTPStatusError for an error status
IsErrorStatus(status) == status >= 400

\* _fetch_url_with_retry as it would be if a 404 went to raise_for_status
FetchOutcomeRaisesOn404(status, body) ==
    IF IsErrorStatus(status) THEN [raises |-> TRUE, bytes |-> NoBytes]
    ELSE [raises |-> FALSE, bytes |-> body]

\* one attempt of _fetch_url_with_retry on a response: the marker for a 404,
\* HTTPStatusError for another error status, the body otherwise
FetchOutcome(status, body) ==
    IF status = 404 THEN [raises |-> FALSE, bytes |-> NotFoundMarker]
    ELSE IF IsErrorStatus(status) THEN [raises |-> TRUE, bytes |-> NoBytes]
    ELSE [raises |-> FALSE, bytes |-> body]

\* the loop as it would be if it ended with December instead of going on to
\* January of the next year
RECURSIVE MonthsFromSameYear(_, _, _, _)
MonthsFromSameYear(y, m, endYear, endMonth) ==
    IF y < endYear \/ (y = endYear /\ m <= endMonth)
    THEN <<(<<y, m>>)>> \o (IF m = 12 THEN <<>>
                                       ELSE MonthsFromSameYear(y, m + 1, endYear, endMonth))
    ELSE <<>>

\* the (year, month) pairs the while loop of load_data_for_period walks through
RECURSIVE MonthsFrom(_, _, _, _)
MonthsFrom(y, m, endYear, endMonth) ==
    IF y < endYear \/ (y = endYear /\ m <= endMonth)
    THEN <<(<<y, m>>)>> \o (IF m = 12 THEN MonthsFrom(y + 1, 1, endYear, endMonth)
                                       ELSE MonthsFrom(y, m + 1, endYear, endMonth))
    ELSE <<>>

MonthsOf(c) == MonthsFrom(c.startYear, c.startMonth, c.endYear, c.endMonth)
Months == MonthsOf(cfg)

\* a month task <<s, k>>: symbol number s, k-th month of the range
TaskIds(s) == {<<s, k>> : k \in 1..Len(Months)}
\* the month tasks that exist for symbol number s
TasksOf(s) == {t \in DOMAIN task : t[1] = s}
KeyOfTask(c, t) == <<c.symbols[t[1]], c.interval, MonthsOf(c)[t[2]][1], MonthsOf(c)[t[2]][2]>>
KeyOf(t) == KeyOfTask(cfg, t)

\* tasks are created, and first run, symbol by symbol and month by month
Earlier(u, t) == u[1] < t[1] \/ (u[1] = t[1] /\ u[2] < t[2])

\* `missed` records why get_cached_file returned None to the task: the file
\* was "absent", or it was there and did not pass the checksum test ("mismatch")
NewTask == [pc |-> "created", attempt |-> 0, status |-> 0, fetched |-> NoBytes,
            content |-> NoBytes, df |-> EmptyFrame, err |-> "", missed |-> ""]

Pending(t) == task[t].pc \in {"created", "request"}
\* every coroutine made so far has had its first step: the event loop runs
\* the first steps in creation order before it polls for responses
AllStarted ==
    /\ \A s \in DOMAIN period : period[s].pc # "created"
    /\ \A t \in DOMAIN task : task[t].pc # "created"

\* return parse_kline_zip(content), as the last step of a month task
AfterParse(rec, content) ==
    LET r == ParseKlineZip(content)
    IN  [rec EXCEPT !.pc = IF r.err = "" THEN "returned" ELSE "raised",
                    !.content = content, !.df = r.df, !.err = r.err]

\* the test `content == b"404_NOT_FOUND"` as it would be if it never matched
IsNotFoundNever(content) == FALSE

\* the test as it would be if the bytes were parsed first and bytes that do
\* not parse were dropped like the marker, without a cache write
IsNotFoundOrUnparsable(content) ==
    content = NotFoundMarker \/ ParseKlineZip(content).err # ""

\* download_monthly_klines: content == b"404_NOT_FOUND"
IsNotFound(content) == content = NotFoundMarker

\* load_data_for_period(symbol) is called, by the caller of the loader
\* ("idle") or as the first step of its load_all_symbols task ("created",
\* the tasks in creation order): one task per month, in month order;
\* an empty TaskGroup is left at once and the empty frame returned
LoadDataForPeriod(s) ==
    /\ period[s].pc \in {"idle", "created"}
    /\ \A r \in DOMAIN period : r < s => period[r].pc # "created"
    /\ IF Months = <<>>
       THEN /\ period' = [period EXCEPT ![s] = [pc |-> "returned", result |-> EmptyFrame]]
            /\ UNCHANGED task
       ELSE /\ period' = [period EXCEPT ![s].pc = "joining"]
            /\ task' = [t \in (DOMAIN task) \cup TaskIds(s) |->
                          IF t \in DOMAIN task THEN task[t] ELSE NewTask]
    /\ UNCHANGED <<cacheVars, apiVars, ticker, cfg, doneOrder, allRun, fetch, parsed>>

\* a month task runs for the first time: the cache is read; a hit is parsed
\* and returned, a miss sends the first request
StartTask(t) ==
    /\ task[t].pc = "created"
    /\ \A s \in DOMAIN period : period[s].pc # "created"
    /\ \A u \in DOMAIN task : Earlier(u, t) => task[u].pc # "created"
    /\ LET cached == GetCachedFile(files, checksums, KeyOf(t))
       IN  IF cached # NoBytes
           THEN /\ task' = [task EXCEPT ![t] = AfterParse(@, cached)]
                /\ doneOrder' = Append(doneOrder, t)
           ELSE /\ task' = [task EXCEPT ![t].pc = "request", ![t].attempt = 1,
                                          ![t].missed =
                                              IF KeyName(KeyOf(t)) \in DOMAIN files
                                              THEN "mismatch" ELSE "absent"]
                /\ UNCHANGED doneOrder
    /\ UNCHANGED <<cacheVars, apiVars, ticker, cfg, period, allRun, fetch, parsed>>

\* fetch_kline_zip returns `content` (got with `status`) to download_monthly_klines, which runs to
\* its end: the marker gives an empty month, anything else is saved and parsed
\* (tenacity's attempt counter lives in the call and ends with it)
FetchReturned(t, status, content) ==
    /\ task[t].pc = "request"
    /\ AllStarted
    /\ IF IsNotFound(content)
       THEN /\ task' = [task EXCEPT ![t].pc = "returned", ![t].attempt = 0,
                                      ![t].status = status, ![t].fetched = content]
            /\ UNCHANGED <<cacheVars, saved>>
       ELSE /\ files' = WriteFile(files, KeyName(KeyOf(t)), content)
            /\ checksums' = SaveFileSums(checksums, KeyOf(t), content)
            /\ ledgerFile' = TextFile(SaveChecksums(checksums'))
            /\ saved' = Append(saved, <<KeyOf(t), content>>)
            /\ task' = [task EXCEPT ![t] =
                          AfterParse([@ EXCEPT !.attempt = 0, !.status = status,
                                                !.fetched = content], content)]
    /\ doneOrder' = Append(doneOrder, t)
    /\ UNCHANGED <<last, nOps, ticker, cfg, period, allRun, fetch, parsed>>

\* the archive endpoint answers 200 with a body
Response200(t, body) == FetchReturned(t, 200, FetchOutcome(200, body).bytes)

\* the archive endpoint answers 404: _fetch_url_with_retry returns the marker
Response404(t) == FetchReturned(t, 404, FetchOutcome(404, Garbage).bytes)

\* the attempts of all the calls in flight, as if the fetcher kept one count
RECURSIVE SumOfAttempts(_)
SumOfAttempts(ts) ==
    IF ts = {} THEN 0
    ELSE LET u == CHOOSE x \in ts : TRUE
         IN  task[u].attempt + SumOfAttempts(ts \ {u})

\* the attempt number as it would be if all calls shared one retry state
AttemptsOfFetcher(t) == SumOfAttempts({u \in DOMAIN task : task[u].pc = "request"})

\* the attempt number tenacity asks the stop condition about: @retry keeps a
\* retry state for each call of _fetch_url_with_retry, which counts the
\* attempts of that call
AttemptsOfCall(t) == task[t].attempt

\* RequestError or HTTPStatusError (a status other than 404): tenacity sleeps
\* (wait_exponential; the sleep touches no state and is part of this step) and
\* sends the next request, or after the last attempt raises RetryError, which
\* `except httpx.HTTPError` in download_monthly_klines does not catch
ResponseError(t) ==
    /\ task[t].pc = "request"
    /\ AllStarted
    /\ IF ~StopAfterAttempt(AttemptsOfCall(t))
       THEN /\ task' = [task EXCEPT ![t].attempt = @ + 1]
            /\ UNCHANGED doneOrder
       ELSE /\ task' = [task EXCEPT ![t].pc = "raised", ![t].err = "RetryError"]
            /\ doneOrder' = Append(doneOrder, t)
    /\ UNCHANGED <<cacheVars, apiVars, ticker, cfg, period, allRun, fetch, parsed>>

\* TaskGroup: a task of the group ended with an exception, the tasks still
\* waiting are cancelled (CancelledError at their await, which nothing catches)
Abort(s) ==
    /\ AllStarted
    /\ \E t \in TasksOf(s) : task[t].pc = "raised"
    /\ \E t \in TasksOf(s) : Pending(t)
    /\ task' = [t \in DOMAIN task |->
                  IF t \in TasksOf(s) /\ Pending(t)
                  THEN [task[t] EXCEPT !.pc = "cancelled", !.err = "CancelledError"]
                  ELSE task[t]]
    /\ UNCHANGED <<cacheVars, apiVars, ticker, cfg, period, doneOrder, allRun, fetch, parsed>>

\* [t.result() for t in tasks], as it would be if it followed completion order
TaskFramesByCompletion(s) ==
    LET order == SelectSeq(doneOrder, LAMBDA t : t[1] = s)
    IN  [i \in 1..Len(order) |-> task[order[i]].df]

\* [t.result() for t in tasks]: the tasks in the order they were created
TaskFrames(s) == [k \in 1..Len(Months) |-> task[<<s, k>>].df]

\* pd.concat(dataframes, ignore_index=True): the rows one frame after the
\* other, the index replaced by 0..n-1
RECURSIVE ConcatRows(_)
ConcatRows(dfs) == IF dfs = <<>> THEN <<>> ELSE Head(dfs).rows \o ConcatRows(Tail(dfs))

\* a label of a RangeIndex: a position, not an instant
RangeLabel(n) == [position |-> n]

ConcatIgnoreIndex(dfs) ==
    LET rows == ConcatRows(dfs)
    IN  [index |-> [i \in 1..Len(rows) |-> RangeLabel(i - 1)], rows |-> rows]

\* the list `dataframes` of load_data_for_period
Dataframes(s) == SelectSeq(TaskFrames(s), LAMBDA df : ~IsEmptyFrame(df))

\* the TaskGroup of load_data_for_period is left: with every task returned the
\* frames are concatenated, otherwise the group raises an ExceptionGroup
Join(s) ==
    /\ period[s].pc = "joining"
    /\ \A t \in TasksOf(s) : ~Pending(t)
    /\ IF \E t \in TasksOf(s) : task[t].pc # "returned"
       THEN period' = [period EXCEPT ![s].pc = "raised"]
       ELSE period' = [period EXCEPT ![s] =
                [pc |-> "returned",
                 result |-> IF Dataframes(s) = <<>> THEN EmptyFrame
                            ELSE ConcatIgnoreIndex(Dataframes(s))]]
    /\ UNCHANGED <<cacheVars, apiVars, ticker, cfg, task, doneOrder, allRun, fetch, parsed>>

(***************************************************************************)
(* Spec: load_data_for_period for one symbol over every range of up to     *)
(* three months around a year boundary, the cache directory holding, for   *)
(* a month, nothing, a verified archive or a file the ledger disowns.      *)
(***************************************************************************)
SymETHBTC == <<"E", "T", "H", "B", "T", "C">>

RangeMonths == {<<2024, 11>>, <<2024, 12>>, <<2025, 1>>}
LoaderConfigs ==
    {[symbols |-> <<SymETHBTC>>, interval |-> Interval1m,
      startYear |-> a[1], startMonth |-> a[2], endYear |-> b[1], endMonth |-> b[2]] :
        a \in RangeMonths, b \in RangeMonths}

CachedStates == {"absent", "valid", "stale"}
FetchBodies == {ZipJan, ZipMessy, Garbage, NotFoundMarker}
\* at most MaxCached months of the range have a file in the cache at the start
MaxCached == 1
CacheScenarios(n) ==
    {cs \in [1..n -> CachedStates] : Cardinality({k \in 1..n : cs[k] # "absent"}) <= MaxCached}

\* the cache a former run left: month k's file holds ZipFeb when cs[k] is not
\* "absent"; the ledger has its checksum ("valid") or another one ("stale")
RECURSIVE CachedSums(_, _, _)
CachedSums(c, cs, k) ==
    IF k = 0 THEN <<>>
    ELSE LET before == CachedSums(c, cs, k - 1)
             name == KeyName(KeyOfTask(c, <<1, k>>))
         IN  IF cs[k] = "absent" THEN before
             ELSE Append(before, <<name, ComputeMd5(IF cs[k] = "valid" THEN ZipFeb ELSE ZipJan)>>)

CachedFiles(c, cs) ==
    LET present == {k \in 1..Len(MonthsOf(c)) : cs[k] # "absent"}
    IN  [name \in {KeyName(KeyOfTask(c, <<1, k>>)) : k \in present} |-> ZipFeb]

Init ==
    /\ cfg \in LoaderConfigs
    /\ \E cs \in CacheScenarios(Len(Months)) :
         /\ files = CachedFiles(cfg, cs)
         /\ checksums = CachedSums(cfg, cs, Len(Months))
         /\ ledgerFile = IF checksums = <<>> THEN NoFile
                         ELSE TextFile(SaveChecksums(checksums))
    /\ last = [op |-> "none", key |-> KeyPlain, content |-> NoBytes,
               ret |-> NoBytes, prev |-> NoCall]
    /\ saved = <<>>
    /\ nOps = 0
    /\ ticker = IdleTicker
    /\ task = <<>>
    /\ period = [s \in 1..Len(cfg.symbols) |-> [pc |-> "idle", result |-> EmptyFrame]]
    /\ doneOrder = <<>>
    /\ allRun = IdleAll
    /\ fetch = IdleFetch
    /\ parsed = IdleParse

Next ==
    \/ \E s \in DOMAIN period : LoadDataForPeriod(s)
    \/ \E t \in DOMAIN task : StartTask(t)
    \/ \E t \in DOMAIN task, body \in FetchBodies : Response200(t, body)
    \/ \E t \in DOMAIN task : Response404(t)
    \/ \E t \in DOMAIN task : ResponseError(t)
    \/ \E s \in DOMAIN period : Abort(s)
    \/ \E s \in DOMAIN period : Join(s)

Spec == Init /\ [][Next]_vars

(***************************************************************************)
(* SpecAll: load_all_symbols for two symbols.  Each symbol is a task of    *)
(* the outer TaskGroup running load_data_for_period, whose month tasks     *)
(* belong to a TaskGroup of its own.                                       *)
(***************************************************************************)
\* load_all_symbols(symbols) is called: one task per symbol, in list order
LoadAllSymbols ==
    /\ allRun.pc = "idle"
    /\ period = <<>>
    /\ allRun' = [allRun EXCEPT !.pc = "joining"]
    /\ period' = [s \in 1..Len(cfg.symbols) |-> [pc |-> "created", result |-> EmptyFrame]]
    /\ UNCHANGED <<cacheVars, apiVars, ticker, cfg, task, doneOrder, fetch, parsed>>

\* the outer TaskGroup: a symbol's task ended with an exception, so the
\* symbol tasks still waiting are cancelled; each of them, waiting at the end
\* of its own TaskGroup, cancels its month tasks and ends cancelled
AbortAll ==
    /\ allRun.pc = "joining"
    /\ AllStarted
    /\ \E s \in DOMAIN period : period[s].pc = "raised"
    /\ \E s \in DOMAIN period : period[s].pc = "joining"
    /\ period' = [s \in DOMAIN period |->
                    IF period[s].pc = "joining"
                    THEN [period[s] EXCEPT !.pc = "cancelled"] ELSE period[s]]
    /\ task' = [t \in DOMAIN task |->
                  IF period[t[1]].pc = "joining" /\ Pending(t)
                  THEN [task[t] EXCEPT !.pc = "cancelled", !.err = "CancelledError"]
                  ELSE task[t]]
    /\ UNCHANGED <<cacheVars, apiVars, ticker, cfg, doneOrder, allRun, fetch, parsed>>

\* results[s] = t.result() for s, t in tasks.items()
RECURSIVE ResultsDict(_)
ResultsDict(k) ==
    IF k = 0 THEN <<>>
    ELSE DictSet(ResultsDict(k - 1), cfg.symbols[k], period[k].result)

\* the outer TaskGroup is left: with every symbol task returned the mapping
\* is built and returned, otherwise the group raises an ExceptionGroup
JoinAll ==
    /\ allRun.pc = "joining"
    /\ \A s \in DOMAIN period : period[s].pc \in {"returned", "raised", "cancelled"}
    /\ IF \E s \in DOMAIN period : period[s].pc # "returned"
       THEN allRun' = [allRun EXCEPT !.pc = "raised"]
       ELSE allRun' = [pc |-> "returned", results |-> ResultsDict(Len(cfg.symbols))]
    /\ UNCHANGED <<cacheVars, apiVars, ticker, cfg, task, period, doneOrder, fetch, parsed>>

SymSOLBTC == <<"S", "O", "L", "B", "T", "C">>

\* two symbols over one month (as main() asks for) and over a range that ends
\* before it starts; one symbol over two months across the year boundary
AllConfigs ==
    {[symbols |-> r[1], interval |-> Interval1m,
      startYear |-> r[2], startMonth |-> r[3], endYear |-> r[4], endMonth |-> r[5]] :
        r \in {<<(<<SymETHBTC, SymSOLBTC>>), 2025, 1, 2025, 1>>,
               <<(<<SymETHBTC, SymSOLBTC>>), 2025, 1, 2024, 12>>,
               <<(<<SymSOLBTC>>), 2024, 12, 2025, 1>>}}

InitAll ==
    /\ cfg \in AllConfigs
    /\ \E cs \in CacheScenarios(Len(Months)) :
         /\ files = CachedFiles(cfg, cs)
         /\ checksums = CachedSums(cfg, cs, Len(Months))
         /\ ledgerFile = IF checksums = <<>> THEN NoFile
                         ELSE TextFile(SaveChecksums(checksums))
    /\ last = [op |-> "none", key |-> KeyPlain, content |-> NoBytes,
               ret |-> NoBytes, prev |-> NoCall]
    /\ saved = <<>>
    /\ nOps = 0
    /\ ticker = IdleTicker
    /\ task = <<>>
    /\ period = <<>>
    /\ doneOrder = <<>>
    /\ allRun = IdleAll
    /\ fetch = IdleFetch
    /\ parsed = IdleParse

NextAll ==
    \/ LoadAllSymbols
    \/ \E s \in DOMAIN period : LoadDataForPeriod(s)
    \/ \E t \in DOMAIN task : StartTask(t)
    \/ \E t \in DOMAIN task, body \in FetchBodies : Response200(t, body)
    \/ \E t \in DOMAIN task : Response404(t)
    \/ \E t \in DOMAIN task : ResponseError(t)
    \/ \E s \in DOMAIN period : Abort(s)
    \/ \E s \in DOMAIN period : Join(s)
    \/ AbortAll
    \/ JoinAll

SpecAll == InitAll /\ [][NextAll]_vars

(***************************************************************************)
(* SpecMain: main().  The symbols are resolved with get_top_pairs; when    *)
(* that call has returned the ledger file is loaded, the CacheManager and  *)
(* the loader are built and load_all_symbols is called on the result.  An  *)
(* exception of get_top_pairs or of load_all_symbols leaves main().        *)
(***************************************************************************)
\* get_top_pairs(quote="BTC", limit=100)
MainLimit == 100

\* BinanceDataLoader(start_year=2025, start_month=2, end_year=2025,
\* end_month=2), and the same run asked for two months
MainRanges == {<<2025, 2, 2025, 2>>, <<2025, 1, 2025, 2>>}
MainCfg(symbols, r) ==
    [symbols |-> symbols, interval |-> Interval1m,
     startYear |-> r[1], startMonth |-> r[2], endYear |-> r[3], endMonth |-> r[4]]

\* what the ticker endpoint may serve: nothing, one pair, two pairs and a
\* test symbol in another order than by volume, or three entries of two pairs
MainSnapshots ==
    { <<>>,
      <<TickerEntry(SymETHBTC, <<"1", "0", "0">>)>>,
      <<TickerEntry(SymSOLBTC, <<"5", "0">>),
        TickerEntry(<<"T", "E", "S", "T", "B", "T", "C">>, <<"9", "9", "9">>),
        TickerEntry(SymETHBTC, <<"1", "0", "0">>)>>,
      <<TickerEntry(SymSOLBTC, <<"5", "0">>),
        TickerEntry(SymETHBTC, NoneStr),
        TickerEntry(SymETHBTC, <<"1", "0", "0">>)>> }

\* the month tasks of a run are at most MaxTasks
MaxTasks == 2

\* the statements after `await pairs_fetcher.get_top_pairs(...)` as they
\* would run if main() went on with an empty list after a failed resolution
ResolvedOrFailed(t) == t.pc \in {"returned", "raised RetryError", "raised"}

\* the statements after `await pairs_fetcher.get_top_pairs(...)` run when
\* the call has returned; an exception leaves main() through the
\* `async with` block
Resolved(t) == t.pc = "returned"

InitMain ==
    /\ \E r \in MainRanges : cfg = MainCfg(<<>>, r)
    /\ \E cs \in CacheScenarios(Len(Months)) :
         LET former == MainCfg(<<SymETHBTC>>, <<cfg.startYear, cfg.startMonth,
                                              cfg.endYear, cfg.endMonth>>)
             sums == CachedSums(former, cs, Len(Months))
         IN  /\ files = CachedFiles(former, cs)
             /\ ledgerFile = IF sums = <<>> THEN NoFile ELSE TextFile(SaveChecksums(sums))
    /\ checksums = <<>>
    /\ last = [op |-> "none", key |-> KeyPlain, content |-> NoBytes,
               ret |-> NoBytes, prev |-> NoCall]
    /\ saved = <<>>
    /\ nOps = 0
    /\ ticker = [pc |-> "request", attempt |-> 1, err |-> "", snapshot |-> <<>>,
                 quote |-> QuoteBTC, limit |-> MainLimit, result |-> <<>>]
    /\ task = <<>>
    /\ period = <<>>
    /\ doneOrder = <<>>
    /\ allRun = IdleAll
    /\ fetch = IdleFetch
    /\ parsed = IdleParse

\* main() after get_top_pairs: load_checksums, CacheManager(...),
\* BinanceDataLoader(...) and the call of load_all_symbols(top_100_btc),
\* which makes one task per symbol and waits for them
MainLoad ==
    /\ Resolved(ticker)
    /\ allRun.pc = "idle"
    /\ checksums' = LoadChecksums(ledgerFile)
    /\ cfg' = [cfg EXCEPT !.symbols = ticker.result]
    /\ allRun' = [allRun EXCEPT !.pc = "joining"]
    /\ period' = [s \in 1..Len(ticker.result) |-> [pc |-> "created", result |-> EmptyFrame]]
    /\ UNCHANGED <<files, ledgerFile, apiVars, ticker, task, doneOrder, fetch, parsed>>

NextMain ==
    \/ \E snapshot \in MainSnapshots :
          /\ Len(TopPairs(snapshot, ticker.quote, ticker.limit)) * Len(Months) <= MaxTasks
          /\ TickerAnsweredWith(snapshot)
    \/ \E error \in PairsRetried : TickerFailed(error)
    \/ TickerUnreadable
    \/ MainLoad
    \/ \E s \in DOMAIN period : LoadDataForPeriod(s)
    \/ \E t \in DOMAIN task : StartTask(t)
    \/ \E t \in DOMAIN task, body \in FetchBodies : Response200(t, body)
    \/ \E t \in DOMAIN task : Response404(t)
    \/ \E t \in DOMAIN task : ResponseError(t)
    \/ \E s \in DOMAIN period : Abort(s)
    \/ \E s \in DOMAIN period : Join(s)
    \/ AbortAll
    \/ JoinAll

SpecMain == InitMain /\ [][NextMain]_vars

\* C23: when get_top_pairs fails with its retries exhausted the run is over:
\* load_all_symbols is never called, no symbol or month task exists, no
\* save_file is made, and the cache files, the ledger and the ledger file
\* stay as they were
C23_ResolutionFailureAborts ==
    [][ ticker'.pc # "returned" =>
          /\ allRun' = IdleAll /\ period' = <<>> /\ task' = <<>>
          /\ saved' = <<>>
          /\ UNCHANGED <<files, checksums, ledgerFile>> ]_vars

\* C23 witness: the fifth request failed and main() is left, a file of a
\* former run still in the cache
C23_Witness ==
    /\ ticker.pc = "raised RetryError"
    /\ ticker.attempt = 5
    /\ files # <<>>
    /\ task = <<>> /\ saved = <<>>

(***************************************************************************)
(* SpecFetch: one fetch_kline_zip call against an endpoint that answers    *)
(* each request with any status and body, or not at all.                   *)
(***************************************************************************)
\* BinanceFetcher._base_url
BaseUrl ==
    <<"h", "t", "t", "p", "s", ":", "/", "/", "d", "a", "t", "a", ".">> \o
    <<"b", "i", "n", "a", "n", "c", "e", ".", "v", "i", "s", "i", "o", "n">>

\* fetch_kline_zip: base_url = f"{self._base_url}/data/spot/monthly/klines"
KlinesUrl ==
    BaseUrl \o <<"/", "d", "a", "t", "a", "/", "s", "p", "o", "t">> \o
    <<"/", "m", "o", "n", "t", "h", "l", "y", "/", "k", "l", "i", "n", "e", "s">>

\* fetch_kline_zip: filename = f"{symbol}-{interval}-{year}-{month:02d}.zip"
FetchFileName(symbol, interval, year, month) ==
    symbol \o <<"-">> \o interval \o <<"-">> \o DecStr(year) \o <<"-">> \o Pad2(month)
        \o <<".", "z", "i", "p">>

\* fetch_kline_zip: url = f"{base_url}/{symbol}/{interval}/{filename}"
FetchUrl(key) ==
    KlinesUrl \o <<"/">> \o key[1] \o <<"/">> \o key[2] \o <<"/">>
        \o FetchFileName(key[1], key[2], key[3], key[4])

\* the keys fetch_kline_zip is called with
KeyDecember == <<(<<"A">>), Interval1m, 2024, 12>>
FetchKeys == {KeyPlain, KeyDashA, KeyDecember}

\* the statuses the endpoint answers with; 0 stands for no response at all
\* (httpx.RequestError)
NoResponse == 0
FetchStatuses == {200, 404, 403, 500}
ResponseBodies == {ZipJan, Garbage, NotFoundMarker, EmptyBytes}

InitFetch ==
    /\ files = <<>>
    /\ checksums = <<>>
    /\ ledgerFile = NoFile
    /\ last = [op |-> "none", key |-> KeyPlain, content |-> NoBytes,
               ret |-> NoBytes, prev |-> NoCall]
    /\ saved = <<>>
    /\ nOps = 0
    /\ ticker = IdleTicker
    /\ LoaderIdle
    /\ fetch = IdleFetch
    /\ parsed = IdleParse

\* fetcher.fetch_kline_zip(symbol, interval, year, month): the URL is built
\* and the first request sent
FetchKlineZip(key) ==
    /\ fetch.pc = "idle"
    /\ fetch' = [fetch EXCEPT !.pc = "request", !.attempt = 1,
                              !.key = key, !.url = FetchUrl(key)]
    /\ UNCHANGED <<cacheVars, apiVars, ticker, loaderVars, parsed>>

\* an attempt failed with `response` logged: tenacity sleeps and sends the
\* next request, or raises RetryError when the stop condition holds
FetchAttemptFailed(response) ==
    fetch' = IF StopAfterAttempt(fetch.attempt)
             THEN [fetch EXCEPT !.pc = "raised", !.err = "RetryError",
                                !.log = Append(@, response)]
             ELSE [fetch EXCEPT !.attempt = @ + 1, !.log = Append(@, response)]

\* the endpoint answers the request of this attempt
FetchAnswered(status, body) ==
    /\ fetch.pc = "request"
    /\ LET response == [status |-> status, body |-> body]
           outcome == FetchOutcome(status, body)
       IN  IF outcome.raises
           THEN FetchAttemptFailed(response)
           ELSE fetch' = [fetch EXCEPT !.pc = "returned", !.result = outcome.bytes,
                                       !.log = Append(@, response)]
    /\ UNCHANGED <<cacheVars, apiVars, ticker, loaderVars, parsed>>

\* the request of this attempt fails in transport (httpx.RequestError)
FetchTransportError ==
    /\ fetch.pc = "request"
    /\ FetchAttemptFailed([status |-> NoResponse, body |-> NoBytes])
    /\ UNCHANGED <<cacheVars, apiVars, ticker, loaderVars, parsed>>

NextFetch ==
    \/ \E key \in FetchKeys : FetchKlineZip(key)
    \/ \E status \in FetchStatuses, body \in ResponseBodies : FetchAnswered(status, body)
    \/ FetchTransportError

SpecFetch == InitFetch /\ [][NextFetch]_vars

\* the attempts whose response was a failure: no response or an error status
\* other than 404
FailedAttempts == {i \in 1..Len(fetch.log) :
                      fetch.log[i].status = NoResponse \/ fetch.log[i].status \in {403, 500}}

\* C13: a 404 from the archive endpoint ends the call at once with the
\* not-found marker: it is the last response of the call, which returns and
\* does not raise, on the first attempt as after failed ones
C13_NotFoundIsFinal ==
    \A i \in 1..Len(fetch.log) :
        fetch.log[i].status = 404 =>
            /\ i = Len(fetch.log)
            /\ fetch.pc = "returned"
            /\ fetch.result = NotFoundMarker

\* C13 witness: two failed attempts, then the 404
C13_Witness ==
    /\ Len(fetch.log) = 3
    /\ FailedAttempts = {1, 2}
    /\ fetch.log[3].status = 404
    /\ fetch.pc = "returned" /\ fetch.result = NotFoundMarker

\* C15: a call makes at most 5 requests; while it is running every response
\* so far was a failure and fewer than 5 were made; it returns on its first
\* response that is no failure, with that body; it fails only after 5 failed
\* attempts, with the error of this one call
C15_AtMostFiveAttempts ==
    /\ Len(fetch.log) <= 5
    /\ fetch.pc = "request" =>
          /\ FailedAttempts = 1..Len(fetch.log)
          /\ Len(fetch.log) < 5 /\ fetch.attempt = Len(fetch.log) + 1
    /\ fetch.pc = "returned" =>
          /\ FailedAttempts = 1..(Len(fetch.log) - 1)
          /\ fetch.log[Len(fetch.log)].status = 200 => fetch.result = fetch.log[Len(fetch.log)].body
    /\ fetch.pc = "raised" =>
          /\ Len(fetch.log) = 5 /\ FailedAttempts = 1..5
          /\ fetch.err = "RetryError"

\* C15 witness: four failures, transport errors and error statuses, and then
\* the archive on the fifth attempt
C15_Witness ==
    /\ fetch.pc = "returned"
    /\ Len(fetch.log) = 5
    /\ \E i, j \in 1..4 : fetch.log[i].status = NoResponse /\ fetch.log[j].status = 500
    /\ fetch.result = ZipJan

\* C15 witness for the failure: five failed attempts
C15_WitnessExhausted ==
    /\ fetch.pc = "raised"
    /\ Len(fetch.log) = 5

(***************************************************************************)
(* Properties of the loader.                                               *)
(***************************************************************************)
\* t finished before u
DoneBefore(t, u) ==
    \E i, j \in 1..Len(doneOrder) : i < j /\ doneOrder[i] = t /\ doneOrder[j] = u

\* the save_file calls the month tasks made, in the order they were made
SavedByTasks == {i \in 1..Len(saved) : \E t \in DOMAIN task : KeyOf(t) = saved[i][1]}

\* C3: whatever the interleaving of the month tasks of a run, every key one of
\* them wrote with save_file has its entry (the checksum of the bytes written)
\* in the in-memory ledger and in the ledger file; no later flush removes it
C3_NoLostLedgerEntry ==
    \A i \in SavedByTasks :
        LET name == KeyName(saved[i][1])
            sum == ComputeMd5(saved[i][2])
            onDisk == LoadChecksums(ledgerFile)
        IN  /\ DictHas(checksums, name) /\ DictGet(checksums, name) = sum
            /\ DictHas(onDisk, name) /\ DictGet(onDisk, name) = sum

\* C3 witness: three tasks missed the cache together and wrote, not in key order
C3_Witness ==
    /\ Len(saved) = 3
    /\ \A t \in DOMAIN task : task[t].fetched # NoBytes
    /\ \E t, u \in DOMAIN task : Earlier(t, u) /\ DoneBefore(u, t)
    /\ Len(checksums) = 3
    /\ Len(LoadChecksums(ledgerFile)) = 3

\* the rows month task t stands for, from its outcome alone: the bytes it got
\* from the cache or the fetch, parsed; nothing for a month that has no bytes
MonthRows(t) ==
    IF task[t].content = NoBytes THEN <<>> ELSE ParseKlineZip(task[t].content).df.rows

RECURSIVE RowsInKeyOrder(_, _)
RowsInKeyOrder(s, k) ==
    IF k = 0 THEN <<>> ELSE RowsInKeyOrder(s, k - 1) \o MonthRows(<<s, k>>)

\* the months other than t's, one after the other in key order
RECURSIVE OtherRows(_, _)
OtherRows(t, k) ==
    IF k = 0 THEN <<>>
    ELSE OtherRows(t, k - 1) \o (IF k = t[2] THEN <<>> ELSE MonthRows(<<t[1], k>>))

\* C4: when one month's fetch failed on every attempt and the other months
\* gave their rows, load_data_for_period returns exactly those rows
C4_FailedMonthIsEmpty ==
    \A t \in DOMAIN task :
        ( /\ period[t[1]].pc \in {"returned", "raised"}
          /\ task[t].attempt = FetchMaxAttempts /\ task[t].err = "RetryError"
          /\ \A u \in TasksOf(t[1]) \ {t} :
                task[u].pc = "returned" /\ ~IsEmptyFrame(task[u].df) )
        => ( /\ period[t[1]].pc = "returned"
             /\ period[t[1]].result.rows = OtherRows(t, Len(Months))
             /\ period[t[1]].result.rows # <<>> )

\* the open_time each row of the concatenation had in its month's frame
RECURSIVE ConcatIndex(_)
ConcatIndex(dfs) == IF dfs = <<>> THEN <<>> ELSE Head(dfs).index \o ConcatIndex(Tail(dfs))

\* C5: the rows of a returned Dataset are strictly ascending by open_time, so
\* no open_time occurs twice, whatever the archives held
C5_StrictlyAscending ==
    \A s \in DOMAIN period :
        period[s].pc = "returned" =>
            LET times == ConcatIndex(Dataframes(s))
            IN  /\ Len(times) = Len(period[s].result.rows)
                /\ \A i, j \in 1..Len(times) : i < j => times[i].epochMs < times[j].epochMs

\* C6: the rows load_data_for_period returns are the months' rows laid out in
\* key order, each month's rows fixed by the bytes of its key alone; the order
\* in which the month tasks finished has no part in it
C6_KeyOrderOnly ==
    \A s \in DOMAIN period :
        period[s].pc = "returned" => period[s].result.rows = RowsInKeyOrder(s, Len(Months))

\* C6 witness: a later month finished before an earlier one, both with rows
C6_Witness ==
    \E s \in DOMAIN period :
        /\ period[s].pc = "returned"
        /\ \E t, u \in TasksOf(s) :
             /\ Earlier(t, u) /\ DoneBefore(u, t)
             /\ MonthRows(t) # <<>> /\ MonthRows(u) # <<>>
             /\ MonthRows(t) # MonthRows(u)
             /\ task[t].fetched # NoBytes

\* C7: a month whose fetch returned the not-found marker is an empty Dataset
\* and save_file was never called for its key: the marker is in no cache file
\* and its checksum in no ledger entry; parse_kline_zip of the marker returns
\* an empty Dataset and does not raise
C7_NotFoundNeverSaved ==
    /\ ParseKlineZip(NotFoundMarker) = Returned(EmptyFrame)
    /\ \A t \in DOMAIN task :
         task[t].fetched = NotFoundMarker =>
            LET name == KeyName(KeyOf(t))
            IN  /\ task[t].pc = "returned" /\ IsEmptyFrame(task[t].df)
                /\ \A i \in 1..Len(saved) : saved[i][1] # KeyOf(t)
                /\ name \in DOMAIN files => files[name] # NotFoundMarker
                /\ DictHas(checksums, name) =>
                      DictGet(checksums, name) # ComputeMd5(NotFoundMarker)

\* C7 witness: one month was not found while a sibling was fetched and saved,
\* and the run returned the sibling's rows
C7_Witness ==
    \E s \in DOMAIN period :
        /\ period[s].pc = "returned"
        /\ period[s].result.rows # <<>>
        /\ \E t, u \in TasksOf(s) :
             /\ task[t].fetched = NotFoundMarker
             /\ KeyName(KeyOf(t)) \notin DOMAIN files
             /\ task[u].fetched \notin {NoBytes, NotFoundMarker}

\* C14: the status of the response decides: after a 200, whatever the body,
\* the key counts as fetched (the body is saved to the cache and parsed);
\* after a 404 it counts as not found (nothing saved, an empty month)
C14_StatusDecides ==
    \A t \in DOMAIN task :
        /\ task[t].status = 200 =>
              /\ \E i \in 1..Len(saved) : saved[i] = <<KeyOf(t), task[t].fetched>>
              /\ task[t].content = task[t].fetched
        /\ task[t].status = 404 =>
              /\ \A i \in 1..Len(saved) : saved[i][1] # KeyOf(t)
              /\ task[t].pc = "returned" /\ IsEmptyFrame(task[t].df)

\* parse_kline_zip fails on the bytes month task t got
ParseFails(t) ==
    task[t].content # NoBytes /\ ParseKlineZip(task[t].content).err # ""

\* C16: a key whose bytes, cached or fetched, fail to parse is an empty month,
\* and load_data_for_period returns the rows of the other months: the parse
\* error does not reach its caller
C16_ParseErrorIsEmptyMonth ==
    \A t \in DOMAIN task :
        ParseFails(t) =>
            /\ task[t].pc = "returned" /\ IsEmptyFrame(task[t].df)
            /\ period[t[1]].pc \in {"returned", "raised"} =>
                  /\ period[t[1]].pc = "returned"
                  /\ period[t[1]].result.rows = OtherRows(t, Len(Months))

\* where a key is in the state machine of the specification
Phase(rec) ==
    CASE rec.pc = "created" -> "Pending"
      [] rec.pc = "request" -> "Fetching"
      [] rec.pc = "returned" /\ rec.fetched = NoBytes -> "CacheHit, Parsed"
      [] rec.pc = "returned" /\ rec.status = 404 -> "NotFound, EmptyMonth"
      [] rec.pc = "returned" /\ IsEmptyFrame(rec.df) -> "EmptyMonth"
      [] rec.pc = "returned" -> "FetchSuccess, Cached, Parsed"
      [] OTHER -> "Error"

PhaseSteps ==
    { <<"Pending", "CacheHit, Parsed">>, <<"Pending", "Fetching">>,
      <<"Fetching", "Fetching">>,
      <<"Fetching", "FetchSuccess, Cached, Parsed">>,
      <<"Fetching", "NotFound, EmptyMonth">>,
      <<"Fetching", "EmptyMonth">> }

\* C17: a key moves only along Pending -> CacheHit -> Parsed, Pending ->
\* Fetching -> FetchSuccess -> Cached -> Parsed, Pending -> Fetching ->
\* NotFound -> EmptyMonth or Pending -> Fetching -> FetchFailed -> EmptyMonth;
\* it ends with parsed rows or an empty month, never with an error that
\* leaves download_monthly_klines
C17_KeyStateMachine ==
    [][ \A t \in DOMAIN task' :
          /\ Phase(task'[t]) # "Error"
          /\ t \notin DOMAIN task => Phase(task'[t]) = "Pending"
          /\ (t \in DOMAIN task /\ task'[t] # task[t]) =>
                <<Phase(task[t]), Phase(task'[t])>> \in PhaseSteps ]_vars

\* the run of load_all_symbols is over
AllOver == allRun.pc \in {"returned", "raised"}

\* C18: a key's failure cancels no sibling: no month task and no symbol's
\* load_data_for_period is cancelled, and when the run is over the rows of
\* every month task that returned are in its symbol's entry of the mapping
C18_NoSiblingCancelled ==
    /\ \A t \in DOMAIN task : task[t].pc # "cancelled"
    /\ \A s \in DOMAIN period : period[s].pc # "cancelled"
    /\ AllOver =>
          \A s \in DOMAIN period :
              (\A t \in TasksOf(s) : task[t].pc = "returned") =>
                  /\ DictHas(allRun.results, cfg.symbols[s])
                  /\ DictGet(allRun.results, cfg.symbols[s]).rows = RowsInKeyOrder(s, Len(Months))

\* the rows symbol s gives by itself: those of its months that returned
RECURSIVE OwnRows(_, _)
OwnRows(s, k) ==
    IF k = 0 THEN <<>>
    ELSE OwnRows(s, k - 1) \o (IF <<s, k>> \in DOMAIN task /\ task[<<s, k>>].pc = "returned"
                               THEN task[<<s, k>>].df.rows ELSE <<>>)

\* C19: load_all_symbols returns a mapping with exactly one entry for each
\* requested symbol; a symbol whose months are all empty, not found or
\* failing maps to an empty Dataset, and every symbol maps to the rows its
\* own keys gave, whatever happened to the other symbols
C19_OneEntryPerSymbol ==
    AllOver =>
        /\ allRun.pc = "returned"
        /\ DictKeys(allRun.results) = {cfg.symbols[s] : s \in DOMAIN period}
        /\ Len(allRun.results) = Cardinality({cfg.symbols[s] : s \in DOMAIN period})
        /\ \A s \in DOMAIN period :
              DictGet(allRun.results, cfg.symbols[s]).rows = OwnRows(s, Len(Months))

\* the range of the configuration does not end before it starts
RangeValid(c) ==
    c.startYear < c.endYear \/ (c.startYear = c.endYear /\ c.startMonth <= c.endMonth)

\* C20: with a valid range, a run of load_all_symbols that is over has
\* returned a mapping, whatever the outcomes of its keys
C20_RunReturnsMapping ==
    (AllOver /\ RangeValid(cfg)) => allRun.pc = "returned"

\* C21: a range whose end month is before its start month is rejected before
\* any cache read or request; no load_data_for_period call answers it with a
\* Dataset
C21_InvalidRangeRejected ==
    ~RangeValid(cfg) => \A s \in DOMAIN period : period[s].pc # "returned"


\* the k-th month counted from the start month of the range
NthMonth(c, k) ==
    LET n == c.startYear * 12 + (c.startMonth - 1) + (k - 1)
    IN  <<n \div 12, (n % 12) + 1>>

\* C25: for a range with start <= end, load_data_for_period makes exactly one
\* month task for each month from the start month to the end month, in
\* chronological order, December followed by January of the next year; they
\* are 12*(end_year - start_year) + (end_month - start_month) + 1 tasks
C25_OneTaskPerMonth ==
    \A s \in DOMAIN period :
        (RangeValid(cfg) /\ period[s].pc # "idle") =>
            LET n == 12 * (cfg.endYear - cfg.startYear)
                        + (cfg.endMonth - cfg.startMonth) + 1
            IN  /\ TasksOf(s) = {<<s, k>> : k \in 1..n}
                /\ \A k \in 1..n :
                      KeyOf(<<s, k>>) = <<cfg.symbols[s], cfg.interval,
                                          NthMonth(cfg, k)[1], NthMonth(cfg, k)[2]>>
                /\ KeyOf(<<s, n>>)[3] = cfg.endYear /\ KeyOf(<<s, n>>)[4] = cfg.endMonth

\* C25 witness: November 2024 to January 2025 gives three tasks, for
\* November, December and January
C25_Witness ==
    /\ period[1].pc = "joining"
    /\ DOMAIN task = {<<1, 1>>, <<1, 2>>, <<1, 3>>}
    /\ KeyOf(<<1, 1>>) = <<SymETHBTC, Interval1m, 2024, 11>>
    /\ KeyOf(<<1, 2>>) = <<SymETHBTC, Interval1m, 2024, 12>>
    /\ KeyOf(<<1, 3>>) = <<SymETHBTC, Interval1m, 2025, 1>>


\* the month task has ended: it returned, raised or was cancelled
Ended(rec) == rec.pc \in {"returned", "raised", "cancelled"}

\* C26: the steps of a key come in a fixed order.  Its first step reads the
\* cache and writes nothing; on a hit the task ends there with the cached
\* bytes, no request and no save_file; a request is made only after a miss;
\* when the fetch gives archive bytes, save_file for the key is made in that
\* step before the parse, so the bytes are read back from the cache whether
\* the parse then succeeds or raises; nothing else calls save_file and an
\* ended task does nothing more
C26_StepOrder ==
    [][ /\ \A t \in DOMAIN task :
              LET cached == GetCachedFile(files, checksums, KeyOf(t))
              IN  /\ Ended(task[t]) => task'[t] = task[t]
                  /\ (task[t].pc = "created" /\ task'[t] # task[t]) =>
                        /\ UNCHANGED <<files, checksums, ledgerFile, saved>>
                        /\ cached # NoBytes =>
                              /\ Ended(task'[t])
                              /\ task'[t].content = cached
                              /\ task'[t].fetched = NoBytes /\ task'[t].attempt = 0
                        /\ cached = NoBytes <=> task'[t].pc = "request"
                  /\ (task[t].pc = "request" /\ task'[t].fetched \notin {NoBytes, NotFoundMarker}) =>
                        /\ saved' = Append(saved, <<KeyOf(t), task'[t].fetched>>)
                        /\ KeyName(KeyOf(t)) \in DOMAIN files'
                        /\ files'[KeyName(KeyOf(t))] = task'[t].fetched
                        /\ GetCachedFile(files', checksums', KeyOf(t)) = task'[t].fetched
                        /\ task'[t].pc \in {"returned", "raised"}
                        /\ task'[t].content = task'[t].fetched
        /\ \A t \in DOMAIN task' : t \notin DOMAIN task => task'[t].pc = "created"
        /\ saved' # saved =>
              \E t \in DOMAIN task :
                  /\ task[t].pc = "request"
                  /\ saved' = Append(saved, <<KeyOf(t), task'[t].fetched>>) ]_vars

\* C26 witness: one month was a cache hit and never written, another was
\* fetched, saved, and then failed to parse
C26_Witness ==
    \E t, u \in DOMAIN task :
        /\ task[t].pc = "returned" /\ task[t].fetched = NoBytes /\ task[t].content = ZipFeb
        /\ \A i \in 1..Len(saved) : saved[i][1] # KeyOf(t)
        /\ task[u].pc = "raised" /\ task[u].err = "BadZipFile" /\ task[u].fetched = Garbage
        /\ files[KeyName(KeyOf(u))] = Garbage
        /\ DictGet(checksums, KeyName(KeyOf(u))) = ComputeMd5(Garbage)


\* the entries of ledger d under the names other than `name`
OtherEntries(d, name) == [n \in DictKeys(d) \ {name} |-> DictGet(d, n)]
\* the cache files other than `name`
OtherFiles(fs, name) == [n \in (DOMAIN fs) \ {name} |-> fs[n]]

\* C27: the cache files, the ledger and the ledger file change only in a
\* step in which a month task calls save_file.  The cache read of a task (a
\* hit, a miss or a checksum mismatch, whose stale file and entry stay), a
\* fetch that ends in not-found and one that ends in exhausted retries leave
\* them unchanged.  save_file for a key sets that key's file and entry and
\* flushes the ledger; the files and entries of other names, those loaded
\* from the ledger file at start included, keep their values
C27_OnlySaveFileWrites ==
    [][ \/ /\ UNCHANGED <<files, checksums, ledgerFile>>
           /\ saved' = saved
        \/ \E t \in DOMAIN task :
              LET name == KeyName(KeyOf(t))
                  content == task'[t].fetched
              IN  /\ task[t].pc = "request"
                  /\ content \notin {NoBytes, NotFoundMarker}
                  /\ saved' = Append(saved, <<KeyOf(t), content>>)
                  /\ DOMAIN files' = (DOMAIN files) \cup {name}
                  /\ files'[name] = content
                  /\ OtherFiles(files', name) = OtherFiles(files, name)
                  /\ DictKeys(checksums') = DictKeys(checksums) \cup {name}
                  /\ DictGet(checksums', name) = ComputeMd5(content)
                  /\ OtherEntries(checksums', name) = OtherEntries(checksums, name)
                  /\ ledgerFile'.exists
                  /\ DictMap(LoadChecksums(ledgerFile')) = DictMap(checksums') ]_vars

\* C27 witness: the cache held a file under a stale entry; its key's task
\* missed on the mismatch and its fetch was not found, a sibling's fetch ran
\* out of retries, and a third month was saved beside the stale entry
C27_Witness ==
    \E t, u, v \in DOMAIN task :
        /\ task[t].fetched = NotFoundMarker
        /\ {KeyName(KeyOf(t)), KeyName(KeyOf(v))} \subseteq DOMAIN files
        /\ files[KeyName(KeyOf(t))] = ZipFeb
        /\ DictGet(checksums, KeyName(KeyOf(t))) = ComputeMd5(ZipJan)
        /\ task[u].err = "RetryError"
        /\ task[v].fetched = ZipMessy
        /\ files[KeyName(KeyOf(v))] = ZipMessy
        /\ Len(checksums) = 2
        /\ Len(saved) = 1

(***************************************************************************)
(* SpecParse: one call of parse_kline_zip, on raw bytes, on the marker and *)
(* on archives of one or two entries whose tables have rows of 11, 12 and  *)
(* 13 fields, in and out of open_time order.                               *)
(***************************************************************************)
\* the tables of the archives have at most MaxRows lines
MaxRows == 2

\* a line with the last field missing, and one with a field too many
ShortRow == SubSeq(KlineRow(3, 13), 1, KlineColumns - 1)
LongRow == KlineRow(3, 13) \o <<0>>

\* the lines of the tables: two klines of one open_time, an earlier one, and
\* the two lines of another width
CsvLines == {KlineRow(2, 11), KlineRow(1, 10), KlineRow(2, 12), ShortRow, LongRow}

CsvTables(n) == UNION {[1..k -> CsvLines] : k \in 0..n}

\* the entry names of the archives: one entry, two entries, two entries of one name
EntryNames == {<<"a.csv">>, <<"a.csv", "b.csv">>, <<"a.csv", "a.csv">>}

ParseArchives(n) ==
    UNION {{ZipNamed(names, entries) : entries \in [1..Len(names) -> CsvTables(n)]} :
             names \in EntryNames}

ParseInputs(n) ==
    {EmptyBytes, NotFoundMarker, Garbage, ZipHead, ZipEmpty} \cup ParseArchives(n)

InitParse ==
    /\ files = <<>>
    /\ checksums = <<>>
    /\ ledgerFile = NoFile
    /\ last = [op |-> "none", key |-> KeyPlain, content |-> NoBytes,
               ret |-> NoBytes, prev |-> NoCall]
    /\ saved = <<>>
    /\ nOps = 0
    /\ ticker = IdleTicker
    /\ LoaderIdle
    /\ fetch = IdleFetch
    /\ \E content \in ParseInputs(MaxRows) :
         parsed = [pc |-> "called", input |-> content, out |-> Returned(EmptyFrame)]

\* parse_kline_zip(zip_content) runs to its end
ParseCall ==
    /\ parsed.pc = "called"
    /\ parsed' = [parsed EXCEPT !.pc = "done", !.out = ParseKlineZip(parsed.input)]
    /\ UNCHANGED <<cacheVars, apiVars, ticker, loaderVars, fetch>>

NextParse == ParseCall

SpecParse == InitParse /\ [][NextParse]_vars

\* the archive that holds the entry at position 0 of `content` and nothing else
FirstEntryAlone(content) == ZipNamed(<<content.names[1]>>, <<content.entries[1]>>)

\* C34: for an archive with several entries parse_kline_zip returns what it
\* returns for the entry at archive position 0 alone: the same rows, or the
\* same failure, whatever the later entries hold.
C34_FirstEntryOnly ==
    (parsed.pc = "done" /\ parsed.input.kind = "zip" /\ Len(parsed.input.names) > 1) =>
        parsed.out = ParseKlineZip(FirstEntryAlone(parsed.input))

\* bijections of 1..n
Bijections(n) == {p \in [1..n -> 1..n] : \A i, j \in 1..n : p[i] = p[j] => i = j}

\* a valid archive: the entry at position 0 is a table of 12-field lines
IsValidArchive(content) ==
    /\ content.kind = "zip"
    /\ content.names # <<>>
    /\ content.entries[1] # <<>>
    /\ \A i \in 1..Len(content.entries[1]) : Len(content.entries[1][i]) = KlineColumns

\* C35: for a valid archive parse_kline_zip returns the rows of its first
\* entry, each exactly once, in ascending order of open_time, with open_time
\* (the index) and close_time turned from milliseconds into instants.
C35_SortedPermutation ==
    (parsed.pc = "done" /\ IsValidArchive(parsed.input)) =>
        LET csv == parsed.input.entries[1]
            df == parsed.out.df
        IN  /\ parsed.out.err = ""
            /\ Len(df.index) = Len(csv) /\ Len(df.rows) = Len(csv)
            /\ \A i \in 1..(Len(csv) - 1) : df.index[i].epochMs <= df.index[i + 1].epochMs
            /\ \E p \in Bijections(Len(csv)) :
                 \A i \in 1..Len(csv) :
                    /\ df.index[i] = ToDatetime(csv[p[i]][1])
                    /\ df.rows[i] = IndexedRow(csv[p[i]]).row

\* the first entry of an archive does not have exactly 12 columns
FirstEntryNot12Columns(content) ==
    /\ content.kind = "zip"
    /\ content.names # <<>>
    /\ ReadCsv(content.entries[1]).err # "" \/ ReadCsv(content.entries[1]).width # KlineColumns

\* C36: for bytes other than the marker that are not a readable archive, and
\* for an archive whose first entry does not have exactly 12 columns,
\* parse_kline_zip raises and returns no rows.
C36_RaisesOnBadInput ==
    (/\ parsed.pc = "done"
     /\ \/ parsed.input # NotFoundMarker /\ parsed.input.kind # "zip"
        \/ FirstEntryNot12Columns(parsed.input)) =>
        parsed.out.err # "" /\ parsed.out.df = EmptyFrame

\* C33: the Dataset load_data_for_period returns is the concatenation, in key
\* order, of the frames parsed for the non-empty months: the same rows, none
\* added, dropped or repeated, each with its open_time and its other fields.
C33_ConcatKeepsRows ==
    \A s \in DOMAIN period :
        (period[s].pc = "returned" /\ Dataframes(s) # <<>>) =>
            /\ period[s].result.rows = ConcatRows(Dataframes(s))
            /\ period[s].result.index = ConcatIndex(Dataframes(s))

(***************************************************************************)
(* SpecRuns: the program is run several times on one cache directory.      *)
(* Call number r of load_data_for_period is made by run r, for the same    *)
(* symbol and range; between two runs the process ends, and the next one   *)
(* starts with the ledger load_checksums reads from the ledger file.       *)
(***************************************************************************)
\* the number of runs
MaxRuns == 2

RunRanges == {<<2024, 12, 2024, 12>>, <<2024, 12, 2025, 1>>}

\* the loader of every run: cfg.symbols[r] is the symbol of call number r
RunCfg(r) ==
    [symbols |-> [i \in 1..MaxRuns |-> SymETHBTC], interval |-> Interval1m,
     startYear |-> r[1], startMonth |-> r[2], endYear |-> r[3], endMonth |-> r[4]]

\* the bodies the archive endpoint answers 200 with
RunBodies == {ZipJan, ZipEmpty, Garbage}

\* the cache directory before the first run: for each month no file, or a
\* file that does not match its ledger entry
RunCaches(n) == [1..n -> {"absent", "stale"}]

InitRuns ==
    /\ \E r \in RunRanges : cfg = RunCfg(r)
    /\ \E cs \in RunCaches(Len(Months)) :
         /\ files = CachedFiles(cfg, cs)
         /\ checksums = CachedSums(cfg, cs, Len(Months))
         /\ ledgerFile = IF checksums = <<>> THEN NoFile
                         ELSE TextFile(SaveChecksums(checksums))
    /\ last = [op |-> "none", key |-> KeyPlain, content |-> NoBytes,
               ret |-> NoBytes, prev |-> NoCall]
    /\ saved = <<>>
    /\ nOps = 0
    /\ ticker = IdleTicker
    /\ task = <<>>
    /\ period = [r \in 1..MaxRuns |-> [pc |-> "idle", result |-> EmptyFrame]]
    /\ doneOrder = <<>>
    /\ allRun = IdleAll
    /\ fetch = IdleFetch
    /\ parsed = IdleParse

\* call number r has ended, with a Dataset or with an exception
RunEnded(r) == period[r].pc \in {"returned", "raised"}

\* run r - 1 is over and the program is started again: load_checksums reads
\* the ledger file, a CacheManager is made with what it read, and
\* load_data_for_period makes its month tasks
RunAgain(r) ==
    /\ r > 1
    /\ RunEnded(r - 1)
    /\ period[r].pc = "idle"
    /\ checksums' = LoadChecksums(ledgerFile)
    /\ period' = [period EXCEPT ![r].pc = "joining"]
    /\ task' = [t \in (DOMAIN task) \cup TaskIds(r) |->
                  IF t \in DOMAIN task THEN task[t] ELSE NewTask]
    /\ UNCHANGED <<files, ledgerFile, apiVars, ticker, cfg, doneOrder, allRun, fetch, parsed>>

NextRuns ==
    \/ LoadDataForPeriod(1)
    \/ \E r \in DOMAIN period : RunAgain(r)
    \/ \E t \in DOMAIN task : StartTask(t)
    \/ \E t \in DOMAIN task, body \in RunBodies : Response200(t, body)
    \/ \E t \in DOMAIN task : Response404(t)
    \/ \E t \in DOMAIN task : ResponseError(t)
    \/ \E r \in DOMAIN period : Abort(r)
    \/ \E r \in DOMAIN period : Join(r)

SpecRuns == InitRuns /\ [][NextRuns]_vars

\* the month task fetched bytes other than the marker, which save_file wrote
FetchedAndCached(t) == task[t].fetched \notin {NoBytes, NotFoundMarker}

\* the month task made no request: it has no fetch result, no response
\* status, and is not waiting for a response
NoRequest(t) ==
    /\ task[t].pc \in {"created", "returned", "raised"}
    /\ task[t].fetched = NoBytes /\ task[t].status = 0 /\ task[t].attempt = 0

Requested(t) ==
    \/ task[t].pc = "request"
    \/ task[t].status \in {200, 404}
    \/ task[t].err \in {"RetryError", "CancelledError"}

\* C32: a key whose file did not match the ledger is fetched again; once
\* bytes other than the marker have been fetched, the file holds them and the
\* ledger entry is their md5, so get_cached_file returns them, and the next
\* run, which reads the ledger from its file, parses them without a request.
C32_MismatchHeals ==
    LET reloaded == LoadChecksums(ledgerFile)
    IN  \A t \in DOMAIN task :
            task[t].missed = "mismatch" =>
                /\ Requested(t)
                /\ FetchedAndCached(t) =>
                     /\ files[KeyName(KeyOf(t))] = task[t].fetched
                     /\ DictGet(checksums, KeyName(KeyOf(t))) = ComputeMd5(task[t].fetched)
                     /\ GetCachedFile(files, checksums, KeyOf(t)) = task[t].fetched
                     /\ GetCachedFile(files, reloaded, KeyOf(t)) = task[t].fetched
                     /\ \A u \in DOMAIN task :
                          (u = <<t[1] + 1, t[2]>> /\ task[u].pc # "created") =>
                              NoRequest(u) /\ task[u].content = task[t].fetched

\* C32 witness: the file of the first month did not match the ledger in the
\* first run, an archive was fetched for it, and the second run has read that
\* archive from the cache and returned its rows
C32_Witness ==
    /\ period[2].pc = "returned"
    /\ task[<<1, 1>>].missed = "mismatch"
    /\ task[<<1, 1>>].fetched = ZipJan
    /\ task[<<2, 1>>].missed = "" /\ task[<<2, 1>>].content = ZipJan
    /\ period[2].result.rows # <<>>

\* C37: an archive with no entries parses to an empty Dataset without an
\* exception, and load_data_for_period treats the month as it treats every
\* empty month: it adds no row, and the Dataset returned is made of the rows
\* of the other months (the empty Dataset when there are none).
C37_EmptyArchiveIsEmptyMonth ==
    /\ ParseKlineZip(ZipEmpty) = Returned(EmptyFrame)
    /\ \A t \in DOMAIN task :
         task[t].content = ZipEmpty =>
             /\ task[t].pc = "returned" /\ task[t].err = ""
             /\ IsEmptyFrame(task[t].df)
             /\ \A u \in DOMAIN task :
                  (u[1] = t[1] /\ task[u].fetched = NotFoundMarker) => task[u].df = task[t].df
             /\ period[t[1]].pc = "returned" =>
                  /\ period[t[1]].result.rows = OtherRows(t, Len(Months))
                  /\ OtherRows(t, Len(Months)) = <<>> => period[t[1]].result = EmptyFrame

\* C37 witness: one month's archive had no entries, the other month's had
\* klines, and the call has returned
C37_Witness ==
    \E t, u \in DOMAIN task :
        /\ t[1] = u[1] /\ period[t[1]].pc = "returned"
        /\ task[t].fetched = ZipEmpty /\ task[t].content = ZipEmpty
        /\ MonthRows(u) # <<>>
        /\ period[t[1]].result.rows = MonthRows(u)

\* the month task fetched bytes that parse_kline_zip raises on
FetchedUnparsable(t) == FetchedAndCached(t) /\ ParseKlineZip(task[t].fetched).err # ""

FailedAttempt(t) ==
    /\ task[t].pc = "request"
    /\ \/ task'[t].pc = "request" /\ task'[t].attempt # task[t].attempt
       \/ task'[t].err = "RetryError"

\* C38: the attempts of a key are counted for that key alone.  A task that
\* waits for a response is at attempt 1..5; a failed attempt of a key changes
\* no other key's task; it leads to the key's next attempt whenever the key
\* has made fewer than 5, whatever the other keys have used up, and to
\* RetryError only after the key's own fifth attempt.
C38_RetryBudgetPerKey ==
    [][ \A t \in DOMAIN task :
          /\ task[t].pc = "request" => task[t].attempt \in 1..FetchMaxAttempts
          /\ FailedAttempt(t) =>
               /\ \A u \in DOMAIN task : u # t => task'[u] = task[u]
               /\ IF task[t].attempt < FetchMaxAttempts
                  THEN task'[t].pc = "request" /\ task'[t].attempt = task[t].attempt + 1
                  ELSE task'[t].pc = "raised" /\ task'[t].attempt = FetchMaxAttempts ]_vars

\* C38 witness: two keys wait for a response at the same time, one at its
\* fifth attempt and the other, after that, at its fifth attempt too
C38_Witness ==
    \E t, u \in DOMAIN task :
        /\ t # u
        /\ task[t].pc = "request" /\ task[t].attempt = FetchMaxAttempts
        /\ task[u].pc = "request" /\ task[u].attempt = FetchMaxAttempts

\* the part of a path after its last "/"
LastSegment(path) ==
    LET slashes == {i \in 1..Len(path) : path[i] = "/"}
        from == IF slashes = {} THEN 0 ELSE CHOOSE i \in slashes : \A j \in slashes : j <= i
    IN  SubSeq(path, from + 1, Len(path))

HasDash(s) == \E i \in 1..Len(s) : s[i] = "-"

\* keys to compare a key with: symbols and intervals with and without "-",
\* two years, months of one and of two digits
NameKeys ==
    {<<symbol, interval, year, month>> :
        symbol \in {<<"A">>, <<"B">>, <<"A", "-", "1", "m">>},
        interval \in {Interval1m, <<"1", "d">>, <<"1", "m", "-", "1", "d">>},
        year \in {2024, 2025}, month \in {1, 2, 12}}

\* the name is "{symbol}-{interval}-{year}-{2-digit month}.zip" for the key
IsNameOfKey(name, key) ==
    LET n == Len(name)
        head == key[1] \o <<"-">> \o key[2] \o <<"-">> \o DecStr(key[3]) \o <<"-">>
    IN  /\ n = Len(head) + 6
        /\ SubSeq(name, 1, Len(head)) = head
        /\ 10 * DigitValue(name[n - 5]) + DigitValue(name[n - 4]) = key[4]
        /\ SubSeq(name, n - 3, n) = <<".", "z", "i", "p">>

\* C39: the file name the cache manager makes for a key is the last segment
\* of the URL the fetcher makes for it, and is
\* "{symbol}-{interval}-{year}-{2-digit month}.zip"; a key that differs in year
\* or month, or in symbol or interval with no "-" in the symbols and intervals
\* of the two keys, has another file name.  (Key and URL of a call do not
\* change after its first request, where they are looked at.)
C39_OneNameForKey ==
    (fetch.pc = "request" /\ fetch.log = <<>>) =>
        /\ LastSegment(fetch.url) = KeyName(fetch.key)
        /\ IsNameOfKey(KeyName(fetch.key), fetch.key)
        /\ \A other \in NameKeys :
             ( \/ other[3] # fetch.key[3]
               \/ other[4] # fetch.key[4]
               \/ /\ other[1] # fetch.key[1] \/ other[2] # fetch.key[2]
                  /\ \A i \in 1..2 : ~HasDash(other[i]) /\ ~HasDash(fetch.key[i]) )
             => KeyName(other) # KeyName(fetch.key)

\* C39 witness: a request for a January archive is out, its URL ending in the
\* name with month 01, and another key, with "-" in its parts, has that name too
C39_Witness ==
    /\ fetch.pc = "request"
    /\ fetch.key = KeyDashA
    /\ LastSegment(fetch.url) = KeyName(KeyDashA)
    /\ KeyName(KeyDashB) = KeyName(KeyDashA)
    /\ EndsWith(fetch.url, <<"-", "0", "1", ".", "z", "i", "p">>)
=============================================================================
